---------------------------- MODULE Spec2Model ----------------------------
(***************************************************************************)
(* Authentication / session lifecycle of the Express backend template:     *)
(* AuthService (register, login, refreshToken, logout, changePassword,     *)
(* verifyToken, cleanExpiredSessions), the authenticate middleware, the    *)
(* auth routes and the centralized error responder.                        *)
(*                                                                         *)
(* Every request is an async handler: it runs one store call (one await)   *)
(* at a time, so each store call is one atomic step and the steps of the   *)
(* requests in flight interleave.  A request becomes visible to the others *)
(* with its first store call, so its arrival is taken together with that   *)
(* call; the insert into the audit log, which no operation reads, is taken *)
(* together with the store call it follows.                                *)
(* Time is counted in seconds.                                             *)
(***************************************************************************)
EXTENDS Integers, Sequences, FiniteSets, Bags, TLC

(***************************************************************************)
(* Bounds of the model                                                     *)
(***************************************************************************)
MaxReqs == 3
MaxTicks == 2

Procs == {1, 2}
Passwords == {"admin123!", "changed456!"}
ShortPassword == "short"
LoginInputs ==
    {[email |-> "admin@example.com", password |-> "admin123!", rememberMe |-> FALSE],
     [email |-> "admin@example.com", password |-> "admin123!", rememberMe |-> TRUE],
     [email |-> "admin@example.com", password |-> "changed456!", rememberMe |-> FALSE],
     [email |-> "new@example.com", password |-> "admin123!", rememberMe |-> FALSE],
     [email |-> "new@example.com", password |-> "changed456!", rememberMe |-> FALSE]}
NoUsername == "undefined"
RegisterInputs ==
    {[email |-> "admin@example.com", username |-> NoUsername, password |-> "admin123!"],
     [email |-> "new@example.com", username |-> NoUsername, password |-> "admin123!"],
     [email |-> "new@example.com", username |-> "admin", password |-> "changed456!"]}

(***************************************************************************)
(* Program constants                                                       *)
(***************************************************************************)
ACCESS_TOKEN_EXPIRES_IN == 900
SESSION_EXPIRY_DEFAULT == 604800
SESSION_EXPIRY_REMEMBER_ME == 2592000

INVALID_CREDENTIALS == "Invalid email or password"
USER_NOT_FOUND == "User not found"
USER_INACTIVE == "Account is deactivated"
INVALID_TOKEN == "Invalid or expired token"
TOKEN_EXPIRED == "Token has expired"
UNAUTHORIZED == "Unauthorized access"
INSUFFICIENT_PERMISSIONS == "Insufficient permissions"
EMAIL_ALREADY_EXISTS == "Email already exists"
USERNAME_ALREADY_EXISTS == "Username already exists"

TickSteps == {SESSION_EXPIRY_DEFAULT}

(***************************************************************************)
(* Errors (ApiErrors.ts) and the response envelope (ApiResponse.ts)        *)
(***************************************************************************)
ApiError(cls, message, statusCode, code) ==
    [cls |-> cls, message |-> message, statusCode |-> statusCode, code |-> code]

UnauthorizedError(message) == ApiError("UnauthorizedError", message, 401, "UNAUTHORIZED")
NotFoundError(message) == ApiError("NotFoundError", message, 404, "NOT_FOUND")
ConflictError(message) == ApiError("ConflictError", message, 409, "CONFLICT")
ValidationError(message) == ApiError("ValidationError", message, 422, "VALIDATION_ERROR")

\* The error zod's parse throws: not an ApiError.
ZodError == ApiError("ZodError", "zod issues", 0, "none")

\* An error raised by the store client (unique-constraint violation, record
\* to update not found, failed transaction): not an ApiError.
StoreError(message) == ApiError("PrismaClientKnownRequestError", message, 0, "none")

NoError == ApiError("none", "", 0, "none")

ApiErrorClasses ==
    {"ApiError", "BadRequestError", "UnauthorizedError", "ForbiddenError",
     "NotFoundError", "MethodNotAllowedError", "ConflictError",
     "ValidationError", "TooManyRequestsError", "InternalServerError",
     "ServiceUnavailableError"}

NoData == [userId |-> 0, accessToken |-> [sub |-> 0, email |-> "", roles |-> {}, iat |-> 0, exp |-> 0, sig |-> "none"], refreshToken |-> -1]

createSuccessResponse(data, message) ==
    [success |-> TRUE, message |-> message, code |-> "none", data |-> data]

createErrorResponse(message, code) ==
    [success |-> FALSE, message |-> message, code |-> code, data |-> NoData]

Reply(status, envelope) ==
    [status |-> status, success |-> envelope.success, message |-> envelope.message,
     code |-> envelope.code, data |-> envelope.data]

NoReply == Reply(0, createErrorResponse("", "none"))

errorHandler(err) ==
    IF err.cls = "ValidationError"
    THEN Reply(400, createErrorResponse("Validation failed", "VALIDATION_ERROR"))
    ELSE IF err.cls = "ZodError"
    THEN Reply(400, createErrorResponse("Validation failed", "VALIDATION_ERROR"))
    ELSE IF err.cls \in ApiErrorClasses
    THEN Reply(err.statusCode, createErrorResponse(err.message, err.code))
    ELSE IF err.cls = "CastError"
    THEN Reply(400, createErrorResponse("Invalid ID format", "INVALID_ID"))
    ELSE IF err.cls = "SyntaxError"
    THEN Reply(400, createErrorResponse("Invalid JSON format", "INVALID_JSON"))
    ELSE Reply(500, createErrorResponse("Internal server error", "INTERNAL_SERVER_ERROR"))


(***************************************************************************)
(* Libraries: bcryptjs, jsonwebtoken, crypto                               *)
(***************************************************************************)
\* bcrypt.hash: the stored value is never the clear password.
Hash(password) == <<"$2a$12$", password>>

\* bcrypt.compare(password, hash)
Compare(password, hash) == hash = Hash(password)

\* jwt.sign(payload, secret, {expiresIn})
\* jwt.sign of a payload whose roles entry is left empty.
JwtSign_NoRoles(sub, email, roles, clock) ==
    [sub |-> sub, email |-> email, roles |-> {}, iat |-> clock,
     exp |-> clock + ACCESS_TOKEN_EXPIRES_IN, sig |-> "valid"]

JwtSign(sub, email, roles, clock) ==
    [sub |-> sub, email |-> email, roles |-> roles, iat |-> clock,
     exp |-> clock + ACCESS_TOKEN_EXPIRES_IN, sig |-> "valid"]

\* A token that was not signed with the server's secret.
GarbageJwt == [sub |-> 0, email |-> "", roles |-> {}, iat |-> 0, exp |-> 0, sig |-> "invalid"]

\* jwt.verify: the signature is checked first, then the expiry.
JwtVerify(token, clock) ==
    IF token.sig # "valid" THEN "JsonWebTokenError"
    ELSE IF clock >= token.exp THEN "TokenExpiredError"
    ELSE "ok"

\* error instanceof cls, for the classes of jsonwebtoken:
\* TokenExpiredError and NotBeforeError extend JsonWebTokenError.
InstanceOf(errCls, cls) ==
    \/ errCls = cls
    \/ cls = "JsonWebTokenError" /\ errCls \in {"TokenExpiredError", "NotBeforeError"}

\* Refresh-token values handed in by clients that no session ever stored,
\* and the absent (falsy) refreshToken of a logout body.
GarbageToken == 0
NoToken == -1

(***************************************************************************)
(* State                                                                   *)
(***************************************************************************)
VARIABLES
    users,       \* user table: sequence of rows, the id is the index
    sessions,    \* session table: function from session id to row
    nextSid,     \* next session id the store hands out
    nextToken,   \* next value drawn by randomBytes(64)
    auditLog,    \* audit_log table: a bag of rows
    now,         \* wall clock, seconds
    procs,       \* the requests in flight, one per slot
    knownRT,     \* refresh tokens clients received in responses
    knownAT,     \* access tokens clients received in responses
    reqs,        \* requests started so far
    ticks,       \* clock advances so far
    auditUp,     \* whether inserts into the audit_log table succeed
    acceptedRT   \* history: refresh tokens a refreshToken call has accepted

vars == <<users, sessions, nextSid, nextToken, auditLog, now, procs, knownRT, knownAT, reqs,
          ticks, auditUp, acceptedRT>>

NoUser == [id |-> 0, email |-> "", username |-> NoUsername, password |-> Hash(""),
           isActive |-> FALSE, roles |-> {}]

NoSession == [id |-> 0, userId |-> 0, refreshToken |-> NoToken, expiresAt |-> 0,
              isRevoked |-> FALSE]

NoTokens == [accessToken |-> NoData.accessToken, refreshToken |-> NoToken]

NoBody == [email |-> "", username |-> NoUsername, password |-> "", rememberMe |-> FALSE,
           refreshToken |-> NoToken, currentPassword |-> "", newPassword |-> ""]

\* The middleware chain a route is mounted behind: the guard that reads the
\* Authorization header, and the roles handed to authorize ("none" and {}
\* for a route of the AuthService, whose chain is fixed).
NoChain == [guard |-> "none", authorize |-> FALSE, roles |-> {}]

\* The chain of the routes that need a signed-in client and no role.
AuthChain == [guard |-> "authenticate", authorize |-> FALSE, roles |-> {}]

\* What the guard did with its continuation and with the response.
NoTrace == [nextCalls |-> 0, nextErr |-> NoError, responded |-> FALSE]

Idle == [op |-> "idle", pc |-> "idle", body |-> NoBody, hdr |-> NoData.accessToken,
         reqUser |-> NoUser, user |-> NoUser, session |-> NoSession,
         tokens |-> NoTokens, resp |-> NoReply,
         scheme |-> "absent", chain |-> NoChain, trace |-> NoTrace, ran |-> FALSE,
         raised |-> NoError, zodErrors |-> TRUE, param |-> 0]

\* Row of the user table as a query returns it (with id and role names).
UserRow(id) ==
    [id |-> id, email |-> users[id].email, username |-> users[id].username,
     password |-> users[id].password, isActive |-> users[id].isActive,
     roles |-> users[id].roles]

UserIds == 1..Len(users)

\* prisma.user.findUnique({where: {email}})
FindUserByEmail(email) ==
    IF \E id \in UserIds : users[id].email = email
    THEN UserRow(CHOOSE id \in UserIds : users[id].email = email)
    ELSE NoUser

\* prisma.user.findUnique({where: {id}})
FindUserById(id) == IF id \in UserIds THEN UserRow(id) ELSE NoUser

\* prisma.user.findFirst({where: {OR: [{email}, {username}]}})
FindUserByEmailOrUsername(email, username) ==
    LET match == {id \in UserIds :
                    \/ users[id].email = email
                    \/ username # NoUsername /\ users[id].username = username}
    IN IF match = {} THEN NoUser
       ELSE UserRow(CHOOSE id \in match : \A other \in match : id <= other)

SessionRow(sid) ==
    [id |-> sid, userId |-> sessions[sid].userId, refreshToken |-> sessions[sid].refreshToken,
     expiresAt |-> sessions[sid].expiresAt, isRevoked |-> sessions[sid].isRevoked]

\* prisma.session.findUnique({where: {refreshToken}})
FindSessionByToken(token) ==
    IF \E sid \in DOMAIN sessions : sessions[sid].refreshToken = token
    THEN SessionRow(CHOOSE sid \in DOMAIN sessions : sessions[sid].refreshToken = token)
    ELSE NoSession

\* The password-change count of a user (history, read by no operation).
PwEpoch(id) == users[id].pwEpoch

(***************************************************************************)
(* Initial state: the seeded store, no request in flight                   *)
(***************************************************************************)
SeedUser(active) ==
    [email |-> "admin@example.com", username |-> "admin", password |-> Hash("admin123!"),
     isActive |-> active, lastLogin |-> -1, roles |-> {"admin"}, pwEpoch |-> 0]

Init ==
    /\ \E active \in BOOLEAN : users = <<SeedUser(active)>>
    /\ sessions = <<>>
    /\ nextSid = 1
    /\ nextToken = 1
    /\ auditLog = EmptyBag
    /\ now = 0
    /\ procs = [p \in Procs |-> Idle]
    /\ knownRT = {}
    /\ knownAT = {}
    /\ reqs = 0
    /\ ticks = 0
    /\ auditUp \in BOOLEAN
    /\ acceptedRT = {}

(***************************************************************************)
(* AuthService helpers                                                     *)
(***************************************************************************)
\* generateTokens(user): access token signed now, refresh token from randomBytes
\* generateTokens whose refresh token is derived from the identity instead
\* of drawn at random.
generateTokens_Derived(user) ==
    [accessToken |-> JwtSign(user.id, user.email, user.roles, now),
     refreshToken |-> 1000 + user.id]

generateTokens(user) ==
    [accessToken |-> JwtSign(user.id, user.email, user.roles, now),
     refreshToken |-> nextToken]

\* createSession(userId, refreshToken, rememberMe): the inserted row
\* The value the store gives isRevoked in a row inserted without it.
DefaultIsRevoked == FALSE

\* A createSession that gives every session the remember-me lifetime.
NewSession_AlwaysLong(userId, refreshToken, rememberMe, origin) ==
    [userId |-> userId, refreshToken |-> refreshToken,
     expiresAt |-> now + SESSION_EXPIRY_REMEMBER_ME,
     isRevoked |-> DefaultIsRevoked, createdAt |-> now, updatedAt |-> now,
     origin |-> origin, epoch |-> PwEpoch(userId)]

NewSession(userId, refreshToken, rememberMe, origin) ==
    [userId |-> userId, refreshToken |-> refreshToken,
     expiresAt |-> now + (IF rememberMe THEN SESSION_EXPIRY_REMEMBER_ME ELSE SESSION_EXPIRY_DEFAULT),
     isRevoked |-> DefaultIsRevoked, createdAt |-> now, updatedAt |-> now,
     origin |-> origin, epoch |-> PwEpoch(userId)]

\* Mutant: the session row is never inserted.
createSession_None(userId, refreshToken, rememberMe, origin) == sessions

createSession(userId, refreshToken, rememberMe, origin) ==
    [sid \in DOMAIN sessions \cup {nextSid} |->
        IF sid = nextSid THEN NewSession(userId, refreshToken, rememberMe, origin)
        ELSE sessions[sid]]

\* logAuditEvent(userId, action): the insert may fail; the failure is caught
\* and logged, nothing is thrown
logAuditEvent(userId, action) ==
    IF auditUp THEN auditLog (+) SetToBag({[userId |-> userId, action |-> action]})
    ELSE auditLog

\* A logAuditEvent without its try/catch: a failed insert is thrown on.
logAuditEventThrown_Rethrow(userId, action) ==
    IF auditUp THEN NoError ELSE StoreError("audit_log insert failed")

\* What logAuditEvent throws to its caller: its catch block logs the error
\* of a failed insert and does not rethrow.
logAuditEventThrown(userId, action) == NoError

\* What the route sends back for a thrown error (asyncHandler -> next -> errorHandler).
Failed(req, err) ==
    [req EXCEPT !.pc = "done", !.raised = err, !.resp = errorHandler(err)]

Fail(p, err) == [procs EXCEPT ![p] = Failed(procs[p], err)]

\* The slots after a call that ends with `await this.logAuditEvent(...)`:
\* completed as the caller goes on to, or failed with what the call threw.
Audited(p, completed, thrown) ==
    IF thrown # NoError THEN Fail(p, thrown) ELSE completed

AuthData(user, tokens) ==
    [userId |-> user.id, accessToken |-> tokens.accessToken, refreshToken |-> tokens.refreshToken]

(***************************************************************************)
(* Request arrival                                                         *)
(***************************************************************************)
\* A request can arrive in slot p: the slot is free, and so is no lower one.
CanArrive(p) ==
    /\ procs[p].pc = "idle"
    /\ \A q \in Procs : q < p => procs[q].pc # "idle"
    /\ reqs < MaxReqs

\* The request as the route handler receives it.
Request(op, body, hdr) == [Idle EXCEPT !.op = op, !.body = body, !.hdr = hdr]

Headers == knownAT \cup {GarbageJwt}

\* The response reaches the client, which keeps the tokens it carries.
Return(p) ==
    /\ procs[p].pc = "done"
    /\ procs' = [procs EXCEPT ![p] = Idle]
    /\ knownRT' = IF procs[p].resp.data.refreshToken # NoToken
                  THEN knownRT \cup {procs[p].resp.data.refreshToken} ELSE knownRT
    /\ knownAT' = IF procs[p].resp.data.accessToken.sig # "none"
                  THEN knownAT \cup {procs[p].resp.data.accessToken} ELSE knownAT
    /\ UNCHANGED <<users, sessions, nextSid, nextToken, auditLog, now, reqs, ticks, auditUp, acceptedRT>>

(***************************************************************************)
(* AuthService.register                                                    *)
(***************************************************************************)
\* The error register throws when findFirst returned a row.
RegisterExistsError(existing, body) ==
    IF existing.email = body.email THEN UnauthorizedError(EMAIL_ALREADY_EXISTS)
    ELSE IF existing.username = body.username THEN UnauthorizedError(USERNAME_ALREADY_EXISTS)
    ELSE NoError

\* Default of the isActive column for a row inserted without it.
DefaultIsActive == TRUE

RegisterFind(p) ==
    /\ CanArrive(p)
    /\ reqs' = reqs + 1
    /\ \E in \in RegisterInputs :
        LET body == [NoBody EXCEPT !.email = in.email, !.username = in.username,
                                   !.password = in.password]
            req == Request("register", body, NoData.accessToken)
            existing == FindUserByEmailOrUsername(body.email, body.username)
            err == RegisterExistsError(existing, body)
        IN procs' = [procs EXCEPT ![p] =
                        IF existing.id # 0 /\ err # NoError THEN Failed(req, err)
                        ELSE [req EXCEPT !.pc = "reg_create"]]
    /\ UNCHANGED <<users, sessions, nextSid, nextToken, auditLog, now, knownRT, knownAT, ticks, auditUp, acceptedRT>>

\* prisma.user.create: email and username are unique columns of the table.
RegisterCreate(p) ==
    /\ procs[p].pc = "reg_create"
    /\ LET body == procs[p].body
           taken == \E id \in UserIds :
                        \/ users[id].email = body.email
                        \/ body.username # NoUsername /\ users[id].username = body.username
           row == [email |-> body.email, username |-> body.username,
                   password |-> Hash(body.password), isActive |-> DefaultIsActive,
                   lastLogin |-> -1, roles |-> {}, pwEpoch |-> 0]
           created == [id |-> Len(users) + 1, email |-> row.email, username |-> row.username,
                       password |-> row.password, isActive |-> row.isActive, roles |-> row.roles]
       IN IF taken
          THEN /\ procs' = Fail(p, StoreError("Unique constraint failed"))
               /\ users' = users
          ELSE /\ users' = Append(users, row)
               /\ procs' = [procs EXCEPT ![p].pc = "reg_session", ![p].user = created]
    /\ UNCHANGED <<sessions, nextSid, nextToken, auditLog, now, knownRT, knownAT, reqs, ticks, auditUp, acceptedRT>>

RegisterSession(p) ==
    /\ procs[p].pc = "reg_session"
    /\ LET tokens == generateTokens(procs[p].user)
       IN /\ sessions' = createSession(procs[p].user.id, tokens.refreshToken, FALSE, "register")
          /\ procs' = Audited(p,
                [procs EXCEPT ![p].pc = "done", ![p].tokens = tokens,
                              ![p].resp = Reply(201, createSuccessResponse(
                                  AuthData(procs[p].user, tokens), "Registration successful"))],
                logAuditEventThrown(procs[p].user.id, "register"))
    /\ auditLog' = logAuditEvent(procs[p].user.id, "register")
    /\ nextSid' = nextSid + 1
    /\ nextToken' = nextToken + 1
    /\ UNCHANGED <<users, now, knownRT, knownAT, reqs, ticks, auditUp, acceptedRT>>

(***************************************************************************)
(* AuthService.login                                                       *)
(***************************************************************************)
\* Mutant: a wrong password gets a message of its own.
LoginCheck_Leaky(user, password) ==
    IF user.id = 0 THEN UnauthorizedError(INVALID_CREDENTIALS)
    ELSE IF ~user.isActive THEN UnauthorizedError(USER_INACTIVE)
    ELSE IF ~Compare(password, user.password) THEN UnauthorizedError("Incorrect password")
    ELSE NoError

\* The checks of login on the row findUnique returned; NoError when they pass.
LoginCheck(user, password) ==
    IF user.id = 0 THEN UnauthorizedError(INVALID_CREDENTIALS)
    ELSE IF ~user.isActive THEN UnauthorizedError(USER_INACTIVE)
    ELSE IF ~Compare(password, user.password) THEN UnauthorizedError(INVALID_CREDENTIALS)
    ELSE NoError

LoginFind(p) ==
    /\ CanArrive(p)
    /\ reqs' = reqs + 1
    /\ \E in \in LoginInputs :
        LET body == [NoBody EXCEPT !.email = in.email, !.password = in.password,
                                   !.rememberMe = in.rememberMe]
            req == Request("login", body, NoData.accessToken)
            user == FindUserByEmail(body.email)
            err == LoginCheck(user, body.password)
        IN procs' = [procs EXCEPT ![p] =
                        IF err # NoError THEN Failed(req, err)
                        ELSE [req EXCEPT !.pc = "login_update", !.user = user]]
    /\ UNCHANGED <<users, sessions, nextSid, nextToken, auditLog, now, knownRT, knownAT, ticks, auditUp, acceptedRT>>

LoginUpdate(p) ==
    /\ procs[p].pc = "login_update"
    /\ users' = [users EXCEPT ![procs[p].user.id].lastLogin = now]
    /\ procs' = [procs EXCEPT ![p].pc = "login_session"]
    /\ UNCHANGED <<sessions, nextSid, nextToken, auditLog, now, knownRT, knownAT, reqs, ticks, auditUp, acceptedRT>>

LoginSession(p) ==
    /\ procs[p].pc = "login_session"
    /\ LET tokens == generateTokens(procs[p].user)
       IN /\ sessions' = createSession(procs[p].user.id, tokens.refreshToken,
                                       procs[p].body.rememberMe, "login")
          /\ procs' = Audited(p,
                [procs EXCEPT ![p].pc = "done", ![p].tokens = tokens,
                              ![p].resp = Reply(200, createSuccessResponse(
                                  AuthData(procs[p].user, tokens), "Login successful"))],
                logAuditEventThrown(procs[p].user.id, "login"))
    /\ auditLog' = logAuditEvent(procs[p].user.id, "login")
    /\ nextSid' = nextSid + 1
    /\ nextToken' = nextToken + 1
    /\ UNCHANGED <<users, now, knownRT, knownAT, reqs, ticks, auditUp, acceptedRT>>

(***************************************************************************)
(* AuthService.refreshToken                                                *)
(***************************************************************************)
\* session.expiresAt < new Date()
SessionExpired(expiresAt, clock) == expiresAt < clock

\* Mutant: the owner's active flag is not looked at.
RefreshCheck_AnyOwner(session, user) ==
    IF session.id = 0 \/ session.isRevoked \/ SessionExpired(session.expiresAt, now)
    THEN UnauthorizedError(INVALID_TOKEN)
    ELSE NoError

\* The checks of refreshToken on the row findUnique returned (with its user).
RefreshCheck(session, user) ==
    IF session.id = 0 \/ session.isRevoked \/ SessionExpired(session.expiresAt, now)
    THEN UnauthorizedError(INVALID_TOKEN)
    ELSE IF ~user.isActive THEN UnauthorizedError(USER_INACTIVE)
    ELSE NoError

RefreshFind(p) ==
    /\ CanArrive(p)
    /\ reqs' = reqs + 1
    /\ \E token \in knownRT \cup {GarbageToken} :
        LET req == Request("refresh", [NoBody EXCEPT !.refreshToken = token], NoData.accessToken)
            session == FindSessionByToken(token)
            user == FindUserById(session.userId)
            err == RefreshCheck(session, user)
        IN /\ procs' = [procs EXCEPT ![p] =
                            IF err # NoError THEN Failed(req, err)
                            ELSE [req EXCEPT !.pc = "refresh_update", !.session = session,
                                             !.user = user]]
           /\ acceptedRT' = IF err # NoError THEN acceptedRT ELSE acceptedRT \cup {token}
    /\ UNCHANGED <<users, sessions, nextSid, nextToken, auditLog, now, knownRT, knownAT, ticks, auditUp>>

\* Mutant: the update touches the timestamp and leaves the old token stored.
RotateSession_KeepToken(sid, refreshToken) ==
    [sessions EXCEPT ![sid].updatedAt = now]

\* prisma.session.update({where: {id}, data: {refreshToken, updatedAt}})
\* A rotation that leaves the row as it is and stores the new token in a
\* row of its own.
RotateSession_NewRow(sid, refreshToken) ==
    [s \in DOMAIN sessions \cup {nextSid} |->
        IF s = nextSid THEN [sessions[sid] EXCEPT !.refreshToken = refreshToken, !.updatedAt = now]
        ELSE sessions[s]]

\* A rotation that also pushes the expiry forward (a sliding session).
RotateSession_Extend(sid, refreshToken) ==
    [sessions EXCEPT ![sid].refreshToken = refreshToken, ![sid].updatedAt = now,
                     ![sid].expiresAt = now + SESSION_EXPIRY_DEFAULT]

RotateSession(sid, refreshToken) ==
    [sessions EXCEPT ![sid].refreshToken = refreshToken, ![sid].updatedAt = now]

RefreshUpdate(p) ==
    /\ procs[p].pc = "refresh_update"
    /\ LET tokens == generateTokens(procs[p].user)
           sid == procs[p].session.id
       IN IF sid \in DOMAIN sessions
          THEN /\ sessions' = RotateSession(sid, tokens.refreshToken)
               /\ procs' = [procs EXCEPT ![p].pc = "done", ![p].tokens = tokens,
                                         ![p].resp = Reply(200, createSuccessResponse(
                                             AuthData(procs[p].user, tokens),
                                             "Token refreshed successfully"))]
          ELSE /\ sessions' = sessions
               /\ procs' = Fail(p, StoreError("Record to update not found"))
    /\ nextToken' = nextToken + 1
    /\ UNCHANGED <<users, nextSid, auditLog, now, knownRT, knownAT, reqs, ticks, auditUp, acceptedRT>>

(***************************************************************************)
(* AuthService.verifyToken and the authenticate middleware                 *)
(***************************************************************************)
\* What the try block of verifyToken throws: the class and the message
\* ("none" when it returns the user).
VerifyThrown(token, user) ==
    LET v == JwtVerify(token, now)
    IN IF v # "ok" THEN [cls |-> v, message |-> v]
       ELSE IF token.sub = 0 THEN [cls |-> "UnauthorizedError", message |-> INVALID_TOKEN]
       ELSE IF user.id = 0 \/ ~user.isActive
            THEN [cls |-> "UnauthorizedError", message |-> USER_NOT_FOUND]
       ELSE [cls |-> "none", message |-> ""]

\* The catch block of verifyToken: the error that leaves the method.
VerifyCatch(thrown) ==
    IF InstanceOf(thrown.cls, "JsonWebTokenError") THEN UnauthorizedError(INVALID_TOKEN)
    ELSE IF InstanceOf(thrown.cls, "TokenExpiredError") THEN UnauthorizedError(TOKEN_EXPIRED)
    ELSE UnauthorizedError(thrown.message)

\* verifyToken(token): NoError and the user, or the error thrown.
\* verifyToken that also demands a session of the identity that is neither
\* revoked nor expired.
verifyToken_NeedsSession(token) ==
    LET user == FindUserById(token.sub)
        thrown == VerifyThrown(token, user)
        live == \E sid \in DOMAIN sessions :
                    /\ sessions[sid].userId = token.sub
                    /\ ~sessions[sid].isRevoked
                    /\ ~(sessions[sid].expiresAt < now)
    IN IF thrown.cls = "none" /\ live THEN [err |-> NoError, user |-> user]
       ELSE IF thrown.cls = "none" THEN [err |-> UnauthorizedError(INVALID_TOKEN), user |-> NoUser]
       ELSE [err |-> VerifyCatch(thrown), user |-> NoUser]

verifyToken(token) ==
    LET user == FindUserById(token.sub)
        thrown == VerifyThrown(token, user)
    IN IF thrown.cls = "none" THEN [err |-> NoError, user |-> user]
       ELSE [err |-> VerifyCatch(thrown), user |-> NoUser]

\* An Authorization header: its scheme prefix ("absent" when the header is
\* not sent) and the text after the prefix.
Header(scheme, token) == [scheme |-> scheme, token |-> token]

\* The empty text after 'Bearer '.
EmptyToken == NoData.accessToken

\* authHeader && authHeader.startsWith('Bearer ') && authHeader.substring(7)
HasBearerToken(header) == header.scheme = "Bearer " /\ header.token # EmptyToken

\* authenticate that lets a request without a Bearer token continue
\* unauthenticated.
authenticate_Lenient(header) ==
    LET r == IF header.scheme # "Bearer " \/ header.token = EmptyToken
             THEN [err |-> NoError, user |-> NoUser]
             ELSE verifyToken(header.token)
    IN [err |-> r.err, user |-> r.user,
        trace |-> [nextCalls |-> 1, nextErr |-> r.err, responded |-> FALSE]]

\* authenticate(req, res, next): the error it hands to next (NoError for a
\* plain next()), the identity it attaches, and its calls of next and res.
authenticate(header) ==
    LET r == IF header.scheme # "Bearer "
             THEN [err |-> UnauthorizedError(UNAUTHORIZED), user |-> NoUser]
             ELSE IF header.token = EmptyToken
             THEN [err |-> UnauthorizedError(UNAUTHORIZED), user |-> NoUser]
             ELSE verifyToken(header.token)
    IN [err |-> r.err, user |-> r.user,
        trace |-> [nextCalls |-> 1, nextErr |-> r.err, responded |-> FALSE]]

\* optionalAuth that hands the error of verifyToken to its continuation.
optionalAuth_Strict(header) ==
    LET r == IF HasBearerToken(header) THEN verifyToken(header.token)
             ELSE [err |-> NoError, user |-> NoUser]
    IN [err |-> r.err, user |-> r.user,
        trace |-> [nextCalls |-> 1, nextErr |-> r.err, responded |-> FALSE]]

\* optionalAuth(req, res, next): verification errors are ignored.
optionalAuth(header) ==
    LET r == IF HasBearerToken(header) THEN verifyToken(header.token)
             ELSE [err |-> NoError, user |-> NoUser]
    IN [err |-> NoError, user |-> r.user,
        trace |-> [nextCalls |-> 1, nextErr |-> NoError, responded |-> FALSE]]

\* userHasAnyRole(user, roleNames)
userHasAnyRole(user, roleNames) == \E role \in user.roles : role \in roleNames

\* authorize with every required role demanded of the identity.
authorize_AllRoles(roles, user) ==
    IF user.id = 0 THEN UnauthorizedError(UNAUTHORIZED)
    ELSE IF ~(\A role \in roles : role \in user.roles)
    THEN UnauthorizedError(INSUFFICIENT_PERMISSIONS)
    ELSE NoError

\* authorize(roles)(req, res, next): the error it throws, NoError when it calls next()
authorize(roles, user) ==
    IF user.id = 0 THEN UnauthorizedError(UNAUTHORIZED)
    ELSE IF ~userHasAnyRole(user, roles) THEN UnauthorizedError(INSUFFICIENT_PERMISSIONS)
    ELSE NoError

\* ChangePasswordSchema.parse(body) succeeds (the confirmation field, which
\* the service does not read, is sent equal to the new password).
MinPasswordLength == 8
ChangePasswordSchema(body) ==
    Len(body.currentPassword) >= 1 /\ Len(body.newPassword) >= MinPasswordLength

\* validateRequestBody(schema): the error it throws, NoError when it calls
\* next().  Whether the error zod throws has an 'errors' property depends on
\* the version of zod the build resolves.
validateRequestBody(parsed, zodErrors) ==
    IF parsed THEN NoError
    ELSE IF zodErrors THEN ValidationError("Request validation failed")
    ELSE ZodError

\* The handlers of GET /users/:id and PUT /users/:id, which make no store
\* call: a caller who is neither the user named by :id nor an admin gets
\* status 403 with an envelope built by createSuccessResponse.
UserById(req) ==
    IF req.param # req.reqUser.id /\ "admin" \notin req.reqUser.roles
    THEN [req EXCEPT !.pc = "done",
              !.resp = Reply(403, createSuccessResponse(NoData, "Access denied"))]
    ELSE IF req.op = "getUser"
    THEN [req EXCEPT !.pc = "done", !.ran = TRUE,
              !.resp = Reply(200, createSuccessResponse(
                  [NoData EXCEPT !.userId = req.reqUser.id], "User retrieved successfully"))]
    ELSE [req EXCEPT !.pc = "done", !.ran = TRUE,
              !.resp = Reply(200, createSuccessResponse(NoData, "User updated successfully"))]

\* authenticate, then the part of the route handler that runs before its
\* first store call: the request as it stands after them.
Authenticate(req) ==
    LET r == authenticate(Header(req.scheme, req.hdr))
        attached == [req EXCEPT !.reqUser = r.user, !.trace = r.trace]
    IN IF r.err # NoError THEN Failed(attached, r.err)
       ELSE IF req.op = "me"
       THEN [attached EXCEPT !.pc = "done",
                !.resp = Reply(200, createSuccessResponse(
                    [NoData EXCEPT !.userId = r.user.id], "Profile retrieved successfully"))]
       ELSE IF req.op \in {"getUser", "updateUser"}
       THEN UserById(attached)
       ELSE IF req.op = "changePassword"
       THEN LET invalid == validateRequestBody(ChangePasswordSchema(req.body), req.zodErrors)
            IN IF invalid # NoError THEN Failed(attached, invalid)
               ELSE [attached EXCEPT !.pc = "cp_find"]
       ELSE IF req.body.refreshToken # NoToken
       THEN [attached EXCEPT !.pc = "logout_find"]
       ELSE [attached EXCEPT !.pc = "done",
                !.resp = Reply(200, createSuccessResponse(NoData, "Logout successful"))]

\* A request to a route behind authenticate arrives and is authenticated.
Authenticated(p, op, body, hdr) ==
    /\ CanArrive(p)
    /\ reqs' = reqs + 1
    /\ procs' = [procs EXCEPT ![p] =
            Authenticate([Request(op, body, hdr) EXCEPT !.scheme = "Bearer ", !.chain = AuthChain])]
    /\ UNCHANGED <<users, sessions, nextSid, nextToken, auditLog, now, knownRT, knownAT, ticks, auditUp, acceptedRT>>

\* POST /auth/logout
\* A request behind authenticate whose body a zod schema is applied to.
AuthenticatedZod(p, op, body, hdr, zodErrors) ==
    /\ CanArrive(p)
    /\ reqs' = reqs + 1
    /\ procs' = [procs EXCEPT ![p] =
            Authenticate([Request(op, body, hdr) EXCEPT
                !.scheme = "Bearer ", !.chain = AuthChain, !.zodErrors = zodErrors])]
    /\ UNCHANGED <<users, sessions, nextSid, nextToken, auditLog, now, knownRT, knownAT, ticks, auditUp, acceptedRT>>

\* A request to GET or PUT /users/:id arrives and runs to its response.
StartUserById(p) ==
    /\ CanArrive(p)
    /\ reqs' = reqs + 1
    /\ \E hdr \in knownAT, id \in UserIds, op \in {"getUser", "updateUser"} :
        procs' = [procs EXCEPT ![p] =
            Authenticate([Request(op, NoBody, hdr) EXCEPT
                !.scheme = "Bearer ", !.chain = AuthChain, !.param = id])]
    /\ UNCHANGED <<users, sessions, nextSid, nextToken, auditLog, now, knownRT, knownAT, ticks, auditUp, acceptedRT>>

StartLogout(p) ==
    \E hdr \in Headers, token \in knownRT \cup {GarbageToken, NoToken} :
        /\ hdr = GarbageJwt => token = NoToken
        /\ Authenticated(p, "logout", [NoBody EXCEPT !.refreshToken = token], hdr)

\* POST /auth/change-password
StartChangePassword(p) ==
    \E hdr \in Headers, cur \in Passwords, new \in Passwords \cup {ShortPassword},
       zodErrors \in BOOLEAN :
        /\ hdr = GarbageJwt => cur = new /\ cur = "admin123!"
        /\ new = ShortPassword => cur = "admin123!"
        /\ new # ShortPassword => zodErrors
        /\ AuthenticatedZod(p, "changePassword",
                            [NoBody EXCEPT !.currentPassword = cur, !.newPassword = new],
                            hdr, zodErrors)

\* GET /auth/me
StartMe(p) ==
    \E hdr \in Headers : Authenticated(p, "me", NoBody, hdr)

\* Header values a client sends: a token it holds or a forged one after
\* 'Bearer ', nothing after 'Bearer ', another scheme, no header at all.
AllHeaders ==
    {Header("Bearer ", token) : token \in Headers \cup {EmptyToken}}
        \cup {Header("Basic ", GarbageJwt), Header("absent", EmptyToken)}

RoleSets == {{"admin"}, {"user"}, {"admin", "user"}}

\* The chains routes are mounted behind: authenticate or optionalAuth, alone
\* or followed by authorize(roles).
Chains ==
    {[guard |-> g, authorize |-> FALSE, roles |-> {}] : g \in {"authenticate", "optionalAuth"}}
        \cup {[guard |-> g, authorize |-> TRUE, roles |-> rs] :
                g \in {"authenticate", "optionalAuth"}, rs \in RoleSets}

\* The request after its chain and, when the chain lets it through, its
\* route handler (a handler that makes no store call, as that of GET /users).
Guarded(req) ==
    LET header == Header(req.scheme, req.hdr)
        g == IF req.chain.guard = "authenticate" THEN authenticate(header)
             ELSE optionalAuth(header)
        attached == [req EXCEPT !.reqUser = g.user, !.trace = g.trace]
        denied == IF req.chain.authorize THEN authorize(req.chain.roles, g.user) ELSE NoError
    IN IF g.err # NoError THEN Failed(attached, g.err)
       ELSE IF denied # NoError THEN Failed(attached, denied)
       ELSE [attached EXCEPT !.pc = "done", !.ran = TRUE,
                !.resp = Reply(200, createSuccessResponse(NoData, "Users retrieved successfully"))]

\* A request to a route behind a chain arrives and runs to its response.
StartGuarded(p) ==
    /\ CanArrive(p)
    /\ reqs' = reqs + 1
    /\ \E header \in AllHeaders, chain \in Chains :
        /\ header.token \notin knownAT => chain.roles \subseteq {"admin"}
        /\ procs' = [procs EXCEPT ![p] =
                Guarded([Request("guarded", NoBody, header.token) EXCEPT
                            !.scheme = header.scheme, !.chain = chain])]
    /\ UNCHANGED <<users, sessions, nextSid, nextToken, auditLog, now, knownRT, knownAT, ticks, auditUp, acceptedRT>>

(***************************************************************************)
(* AuthService.logout                                                      *)
(***************************************************************************)
LogoutFind(p) ==
    /\ procs[p].pc = "logout_find"
    /\ LET session == FindSessionByToken(procs[p].body.refreshToken)
       IN procs' = IF session.id # 0
                   THEN [procs EXCEPT ![p].pc = "logout_update", ![p].session = session]
                   ELSE [procs EXCEPT ![p].pc = "done",
                            ![p].resp = Reply(200, createSuccessResponse(NoData, "Logout successful"))]
    /\ UNCHANGED <<users, sessions, nextSid, nextToken, auditLog, now, knownRT, knownAT, reqs, ticks, auditUp, acceptedRT>>

\* Mutant: the update flips the flag instead of setting it.
RevokeSession_Toggle(sid) == [sessions EXCEPT ![sid].isRevoked = ~sessions[sid].isRevoked]

\* prisma.session.update({where: {id}, data: {isRevoked: true}})
RevokeSession(sid) == [sessions EXCEPT ![sid].isRevoked = TRUE]

LogoutUpdate(p) ==
    /\ procs[p].pc = "logout_update"
    /\ LET sid == procs[p].session.id
       IN IF sid \in DOMAIN sessions
          THEN /\ sessions' = RevokeSession(sid)
               /\ auditLog' = logAuditEvent(procs[p].session.userId, "logout")
               /\ procs' = Audited(p,
                     [procs EXCEPT ![p].pc = "done",
                         ![p].resp = Reply(200, createSuccessResponse(NoData, "Logout successful"))],
                     logAuditEventThrown(procs[p].session.userId, "logout"))
          ELSE /\ sessions' = sessions
               /\ auditLog' = auditLog
               /\ procs' = Fail(p, StoreError("Record to update not found"))
    /\ UNCHANGED <<users, nextSid, nextToken, now, knownRT, knownAT, reqs, ticks, auditUp, acceptedRT>>

(***************************************************************************)
(* AuthService.changePassword                                              *)
(***************************************************************************)
\* changePassword without the comparison of the current password.
ChangePasswordCheck_NoCompare(user, currentPassword) ==
    IF user.id = 0 THEN NotFoundError(USER_NOT_FOUND) ELSE NoError

ChangePasswordCheck(user, currentPassword) ==
    IF user.id = 0 THEN NotFoundError(USER_NOT_FOUND)
    ELSE IF ~Compare(currentPassword, user.password)
    THEN UnauthorizedError("Current password is incorrect")
    ELSE NoError

ChangePasswordFind(p) ==
    /\ procs[p].pc = "cp_find"
    /\ LET user == FindUserById(procs[p].reqUser.id)
           err == ChangePasswordCheck(user, procs[p].body.currentPassword)
       IN procs' = IF err # NoError THEN Fail(p, err)
                   ELSE [procs EXCEPT ![p].pc = "cp_tx", ![p].user = user]
    /\ UNCHANGED <<users, sessions, nextSid, nextToken, auditLog, now, knownRT, knownAT, reqs, ticks, auditUp, acceptedRT>>

\* tx.user.update({where: {id}, data: {password}})
UpdatePassword(userId, hashedPassword) ==
    [users EXCEPT ![userId].password = hashedPassword,
                  ![userId].pwEpoch = users[userId].pwEpoch + 1]

\* Mutant: the password change forgets to revoke the sessions.
RevokeAllSessions_Skip(userId) == sessions

\* tx.session.updateMany({where: {userId, isRevoked: false}, data: {isRevoked: true}})
RevokeAllSessions(userId) ==
    [sid \in DOMAIN sessions |->
        IF sessions[sid].userId = userId /\ ~sessions[sid].isRevoked
        THEN [sessions[sid] EXCEPT !.isRevoked = TRUE]
        ELSE sessions[sid]]

\* Mutant: the two writes are issued without a transaction, so a failure
\* of the second leaves the first applied.
ChangePasswordTx_NotAtomic(p) ==
    /\ procs[p].pc = "cp_tx"
    /\ \E committed \in BOOLEAN :
        /\ users' = UpdatePassword(procs[p].user.id, Hash(procs[p].body.newPassword))
        /\ IF committed
           THEN /\ sessions' = RevokeAllSessions(procs[p].user.id)
                /\ auditLog' = logAuditEvent(procs[p].user.id, "password_change")
                /\ procs' = [procs EXCEPT ![p].pc = "done",
                                 ![p].resp = Reply(200, createSuccessResponse(
                                     NoData, "Password changed successfully"))]
           ELSE /\ sessions' = sessions
                /\ auditLog' = auditLog
                /\ procs' = Fail(p, StoreError("Transaction failed"))
    /\ UNCHANGED <<nextSid, nextToken, now, knownRT, knownAT, reqs, ticks, auditUp, acceptedRT>>

\* prisma.$transaction: both writes are committed together, or the
\* transaction fails and neither is.
ChangePasswordTx(p) ==
    /\ procs[p].pc = "cp_tx"
    /\ \E committed \in BOOLEAN :
        IF committed
        THEN /\ users' = UpdatePassword(procs[p].user.id, Hash(procs[p].body.newPassword))
             /\ sessions' = RevokeAllSessions(procs[p].user.id)
             /\ auditLog' = logAuditEvent(procs[p].user.id, "password_change")
             /\ procs' = Audited(p,
                   [procs EXCEPT ![p].pc = "done",
                                 ![p].resp = Reply(200, createSuccessResponse(
                                     NoData, "Password changed successfully"))],
                   logAuditEventThrown(procs[p].user.id, "password_change"))
        ELSE /\ users' = users
             /\ sessions' = sessions
             /\ auditLog' = auditLog
             /\ procs' = Fail(p, StoreError("Transaction failed"))
    /\ UNCHANGED <<nextSid, nextToken, now, knownRT, knownAT, reqs, ticks, auditUp, acceptedRT>>

(***************************************************************************)
(* AuthService.cleanExpiredSessions and the clock                          *)
(***************************************************************************)
\* deleteMany({where: {OR: [{expiresAt: {lt: now}}, {isRevoked: true}]}})
\* A where clause that leaves revoked rows alone.
Swept_OnlyExpired(sid) == sessions[sid].expiresAt < now

Swept(sid) == sessions[sid].expiresAt < now \/ sessions[sid].isRevoked

\* What a call of cleanExpiredSessions that deleted count rows resolves to:
\* the method is declared Promise<void> and has no return statement; the
\* count goes to the log only.
Returned(defined, value) == [defined |-> defined, value |-> value]
cleanExpiredSessionsResult(count) == Returned(FALSE, 0)

cleanExpiredSessions ==
    /\ sessions' = [sid \in {s \in DOMAIN sessions : ~Swept(s)} |-> sessions[sid]]
    /\ UNCHANGED <<users, nextSid, nextToken, auditLog, now, procs, knownRT, knownAT, reqs, ticks, auditUp, acceptedRT>>

\* No request is in flight.
Quiescent == \A p \in Procs : procs[p].pc = "idle"

\* Time passes.  A request takes far less than the clock's smallest step, so
\* the clock moves only between requests; and the clock is read only against
\* tokens and sessions, so it starts when the first session is created.
Tick ==
    /\ Quiescent
    /\ nextSid > 1
    /\ ticks < MaxTicks
    /\ ticks' = ticks + 1
    /\ \E d \in TickSteps : now' = now + d
    /\ UNCHANGED <<users, sessions, nextSid, nextToken, auditLog, procs, knownRT, knownAT, reqs, auditUp, acceptedRT>>

(***************************************************************************)
(* Deactivation of an identity                                             *)
(***************************************************************************)
\* The active flag of an identity is cleared.  No operation of AuthService
\* writes the flag; it is written by whoever administers the user table.
Deactivate(id) ==
    /\ id \in UserIds
    /\ users[id].isActive
    /\ users' = [users EXCEPT ![id].isActive = FALSE]
    /\ UNCHANGED <<sessions, nextSid, nextToken, auditLog, now, procs, knownRT, knownAT, reqs, ticks, auditUp, acceptedRT>>

(***************************************************************************)
(* Specifications                                                          *)
(***************************************************************************)
Next ==
    \/ \E p \in Procs : StartLogout(p)
    \/ \E p \in Procs : StartChangePassword(p)
    \/ \E p \in Procs : StartMe(p)
    \/ \E p \in Procs : Return(p)
    \/ \E p \in Procs : RegisterFind(p)
    \/ \E p \in Procs : RegisterCreate(p)
    \/ \E p \in Procs : RegisterSession(p)
    \/ \E p \in Procs : LoginFind(p)
    \/ \E p \in Procs : LoginUpdate(p)
    \/ \E p \in Procs : LoginSession(p)
    \/ \E p \in Procs : RefreshFind(p)
    \/ \E p \in Procs : RefreshUpdate(p)
    \/ \E p \in Procs : LogoutFind(p)
    \/ \E p \in Procs : LogoutUpdate(p)
    \/ \E p \in Procs : ChangePasswordFind(p)
    \/ \E p \in Procs : ChangePasswordTx(p)
    \/ cleanExpiredSessions
    \/ Tick

\* The requests of all clients to the AuthService routes interleave at
\* their store calls.
Spec == Init /\ [][Next]_vars

\* One request at a time: a request arrives, the sweep runs and an identity
\* is deactivated only when no other request is in flight.
Alone(p) == \A q \in Procs \ {p} : procs[q].pc = "idle"

NextSeq ==
    \/ \E p \in Procs : Alone(p) /\ StartLogout(p)
    \/ \E p \in Procs : Alone(p) /\ StartChangePassword(p)
    \/ \E p \in Procs : Alone(p) /\ StartMe(p)
    \/ \E p \in Procs : Alone(p) /\ StartGuarded(p)
    \/ \E p \in Procs : Alone(p) /\ StartUserById(p)
    \/ \E p \in Procs : Return(p)
    \/ \E p \in Procs : Alone(p) /\ RegisterFind(p)
    \/ \E p \in Procs : RegisterCreate(p)
    \/ \E p \in Procs : RegisterSession(p)
    \/ \E p \in Procs : Alone(p) /\ LoginFind(p)
    \/ \E p \in Procs : LoginUpdate(p)
    \/ \E p \in Procs : LoginSession(p)
    \/ \E p \in Procs : Alone(p) /\ RefreshFind(p)
    \/ \E p \in Procs : RefreshUpdate(p)
    \/ \E p \in Procs : LogoutFind(p)
    \/ \E p \in Procs : LogoutUpdate(p)
    \/ \E p \in Procs : ChangePasswordFind(p)
    \/ \E p \in Procs : ChangePasswordTx(p)
    \/ Quiescent /\ cleanExpiredSessions
    \/ Tick
    \/ \E id \in UserIds : Quiescent /\ Deactivate(id)

SeqSpec == Init /\ [][NextSeq]_vars

(***************************************************************************)
(* Properties                                                              *)
(***************************************************************************)
\* Request p takes the step that leads it from one position to another.
Moves(p, from, to) == procs[p].pc = from /\ procs'[p].pc = to

\* Request p takes its step at a position, whatever the outcome.
Leaves(p, from) == procs[p].pc = from /\ procs'[p].pc # from

\* A request for operation op arrives in slot p and takes its first step.
Starts(p, op) == procs[p].pc = "idle" /\ procs'[p].op = op

\* Some session row stores the refresh-token value t.
Stored(t) == \E sid \in DOMAIN sessions : sessions[sid].refreshToken = t

\* Another refreshToken call is between its lookup and its update of session sid.
OtherRefreshInFlight(p, sid) ==
    \E q \in Procs \ {p} : procs[q].pc = "refresh_update" /\ procs[q].session.id = sid

RepliedUnauthorized(p) ==
    /\ procs'[p].pc = "done"
    /\ procs'[p].resp.status = 401
    /\ procs'[p].resp.code = "UNAUTHORIZED"
    /\ ~procs'[p].resp.success

C1_Step ==
    \A p \in Procs :
        LET t == procs'[p].body.refreshToken
            found == FindSessionByToken(t)
            mine == procs[p].session.id
            used == procs[p].body.refreshToken
        IN /\ (Starts(p, "refresh") /\ procs'[p].pc = "refresh_update")
                => t \notin acceptedRT \/ OtherRefreshInFlight(p, found.id)
           /\ (Starts(p, "refresh") /\ t \in acceptedRT /\ ~OtherRefreshInFlight(p, found.id))
                => RepliedUnauthorized(p) /\ sessions' = sessions
           /\ (Starts(p, "refresh") /\ found.id # 0 /\ ~found.isRevoked
                 /\ found.expiresAt >= now /\ users[found.userId].isActive)
                => procs'[p].pc = "refresh_update"
           /\ (Leaves(p, "refresh_update") /\ mine \in DOMAIN sessions
                 /\ ~OtherRefreshInFlight(p, mine))
                => /\ procs'[p].resp.status = 200
                   /\ DOMAIN sessions' = DOMAIN sessions
                   /\ sessions'[mine].refreshToken = procs'[p].resp.data.refreshToken
                   /\ sessions'[mine].refreshToken # used
                   /\ sessions'[mine].userId = sessions[mine].userId
                   /\ ~Stored(used)'

\* C1: as long as the refreshToken calls on one session do not overlap, a
\* call with the stored token of a live session succeeds and stores a new
\* value in the same session row, the value it was called with is stored
\* nowhere afterwards, every later call with that value is answered 401
\* Unauthorized, and so no value is accepted by two calls.
C1_SingleUse == [][C1_Step]_vars

\* A refresh token that a call has accepted is presented again and refused.
C1_Witness ==
    \E p \in Procs :
        /\ procs[p].op = "refresh" /\ procs[p].pc = "done"
        /\ procs[p].resp.status = 401
        /\ procs[p].body.refreshToken \in acceptedRT
        /\ procs[p].body.refreshToken \in knownRT

\* Every session created before the last password change of its user is revoked.
C2_Inv ==
    \A sid \in DOMAIN sessions :
        sessions[sid].epoch < PwEpoch(sessions[sid].userId) => sessions[sid].isRevoked

C2_Step ==
    \A p \in Procs :
        LET u == procs[p].user.id
            found == FindSessionByToken(procs'[p].body.refreshToken)
        IN /\ (Moves(p, "cp_tx", "done") /\ procs'[p].resp.status = 200)
                => /\ \A sid \in DOMAIN sessions :
                        /\ sid \in DOMAIN sessions'
                        /\ sessions[sid].userId = u => sessions'[sid].isRevoked
                        /\ sessions[sid].userId # u => sessions'[sid] = sessions[sid]
                   /\ \A id \in UserIds \ {u} : users'[id] = users[id]
           /\ (Starts(p, "refresh") /\ found.id # 0
                 /\ sessions[found.id].epoch < PwEpoch(found.userId))
                => RepliedUnauthorized(p) /\ sessions' = sessions

\* C2: when changePassword succeeds for an identity, every session of that
\* identity that exists at that moment is revoked by the same step and stays
\* revoked, a refreshToken call that looks such a session up is answered 401
\* Unauthorized, and the sessions and rows of other identities are unchanged.
C2_PasswordChangeRevokes == []C2_Inv /\ [][C2_Step]_vars

\* A refreshToken call was refused on a session older than the password change.
C2_Witness ==
    \E p \in Procs, sid \in DOMAIN sessions :
        /\ procs[p].op = "refresh" /\ procs[p].pc = "done"
        /\ procs[p].resp.status = 401
        /\ sessions[sid].refreshToken = procs[p].body.refreshToken
        /\ sessions[sid].epoch < PwEpoch(sessions[sid].userId)

C3_Step ==
    \A p \in Procs :
        (Moves(p, "cp_tx", "done") /\ procs'[p].resp.status = 200)
            => LET u == procs[p].user.id
               IN /\ \A old \in Passwords :
                        Compare(old, users[u].password)
                            => LoginCheck(UserRow(u), old)' = UnauthorizedError(INVALID_CREDENTIALS)
                  /\ LoginCheck(UserRow(u), procs[p].body.newPassword)' = NoError

\* C3: for every pair (currentPassword, newPassword) changePassword accepts,
\* once it has succeeded a login with the password that was current before
\* the change is refused with Unauthorized and a login with newPassword passes.
C3_OldPasswordRejected == [][C3_Step]_vars

\* Non-revoked sessions were all created under the current password hash.
C4_Inv ==
    \A u \in UserIds : \A sid \in DOMAIN sessions :
        (sessions[sid].userId = u /\ ~sessions[sid].isRevoked) => sessions[sid].epoch = PwEpoch(u)

C4_Step ==
    /\ \A u \in UserIds :
        (users'[u].password # users[u].password \/ users'[u].pwEpoch # users[u].pwEpoch)
            => /\ \E p \in Procs : Moves(p, "cp_tx", "done") /\ procs[p].user.id = u
               /\ \A sid \in DOMAIN sessions :
                    sessions[sid].userId = u => sid \in DOMAIN sessions' /\ sessions'[sid].isRevoked
    /\ \A p \in Procs :
        Leaves(p, "cp_tx")
            => LET u == procs[p].user.id
               IN \/ /\ procs'[p].resp.status = 200
                     /\ users'[u].password = Hash(procs[p].body.newPassword)
                     /\ \A sid \in DOMAIN sessions' :
                            sessions'[sid].userId = u => sessions'[sid].isRevoked
                  \/ /\ procs'[p].resp.status = 500
                     /\ users' = users
                     /\ sessions' = sessions

\* C4: changePassword writes the new hash and revokes the sessions of the
\* identity in one step: a step changes a hash only if it also revokes every
\* session of that identity, a failed transaction changes neither table, and
\* in no state does a non-revoked session predate the stored hash.
C4_AtomicPasswordChange == []C4_Inv /\ [][C4_Step]_vars

\* A password change has committed while the identity had a session.
C4_Witness ==
    \E p \in Procs, sid \in DOMAIN sessions :
        /\ procs[p].op = "changePassword" /\ procs[p].pc = "done"
        /\ procs[p].resp.status = 200
        /\ sessions[sid].userId = procs[p].user.id
        /\ sessions[sid].isRevoked
        /\ sessions[sid].epoch < PwEpoch(sessions[sid].userId)

\* The reply of login when findUnique finds no identity for the email.
UnknownEmailReply(password) == errorHandler(LoginCheck(NoUser, password))

SameError(reply, other) ==
    /\ reply.status = other.status
    /\ reply.code = other.code
    /\ reply.message = other.message

\* A login arrives in slot p with the email of a registered identity and a
\* password that is not that identity's.
WrongPasswordLogin(p) ==
    LET user == FindUserByEmail(procs'[p].body.email)
    IN /\ Starts(p, "login")
       /\ user.id # 0
       /\ ~Compare(procs'[p].body.password, user.password)

C5_AnyStep ==
    \A p \in Procs :
        WrongPasswordLogin(p)
            => /\ procs'[p].pc = "done"
               /\ SameError(procs'[p].resp, UnknownEmailReply(procs'[p].body.password))

\* C5 as stated: for every registered identity, active or not, login with a
\* wrong password is answered with the status, code and message of a login
\* with an email that belongs to no identity.
C5_AnyLoginUniform == [][C5_AnyStep]_vars

C5_ActiveStep ==
    \A p \in Procs :
        (WrongPasswordLogin(p) /\ FindUserByEmail(procs'[p].body.email).isActive)
            => /\ procs'[p].pc = "done"
               /\ SameError(procs'[p].resp, UnknownEmailReply(procs'[p].body.password))
               /\ procs'[p].resp.status = 401
               /\ procs'[p].resp.message = INVALID_CREDENTIALS

\* C5 amended: for every registered active identity, login with a wrong
\* password is answered 401 with the code and message of a login with an
\* email that belongs to no identity.
C5_ActiveLoginUniform == [][C5_ActiveStep]_vars

\* A login with the seeded identity's email and a wrong password was refused
\* with the message an unknown email gets.
C5_Witness ==
    \E p \in Procs :
        /\ procs[p].op = "login" /\ procs[p].pc = "done"
        /\ procs[p].body.email = users[1].email
        /\ users[1].isActive
        /\ ~Compare(procs[p].body.password, users[1].password)
        /\ procs[p].resp.message = INVALID_CREDENTIALS
        /\ procs[p].resp.code = "UNAUTHORIZED"

C6_Step ==
    \A p \in Procs :
        LET body == procs'[p].body
        IN (Starts(p, "register") /\ FindUserByEmailOrUsername(body.email, body.username).id # 0)
            => /\ procs'[p].pc = "done"
               /\ procs'[p].resp.status = 409
               /\ procs'[p].resp.code = "CONFLICT"
               /\ users' = users
               /\ sessions' = sessions

\* C6: register with an email or username some identity already holds is
\* answered 409 with code CONFLICT and changes neither the identities nor
\* the sessions.
C6_DuplicateIsConflict == [][C6_Step]_vars

\* The sessions of an identity.
SessionsOf(id) == {sid \in DOMAIN sessions : sessions[sid].userId = id}

Taken(body) ==
    \E id \in UserIds :
        \/ users[id].email = body.email
        \/ body.username # NoUsername /\ users[id].username = body.username

C7_Inv ==
    \A p \in Procs :
        (procs[p].op = "register" /\ procs[p].pc = "done")
            => IF procs[p].resp.status = 201
               THEN LET id == procs[p].resp.data.userId
                    IN /\ id \in UserIds
                       /\ users[id].email = procs[p].body.email
                       /\ users[id].isActive
                       /\ Cardinality(SessionsOf(id)) = 1
                       /\ \A sid \in SessionsOf(id) :
                            /\ ~sessions[sid].isRevoked
                            /\ ~SessionExpired(sessions[sid].expiresAt, now)
                            /\ sessions[sid].refreshToken = procs[p].resp.data.refreshToken
               ELSE /\ Taken(procs[p].body)
                    /\ procs[p].resp.data.userId = 0

C7_Step ==
    \A p \in Procs :
        (Starts(p, "register") /\ ~Taken(procs'[p].body)) => procs'[p].pc = "reg_create"

\* C7: with one request at a time, register with an email and username no
\* identity holds is answered 201, and when the response is sent the
\* identity it names exists with that email, is active, and has exactly one
\* session, non-revoked and non-expired, storing the refresh token returned;
\* register fails only when the email or username is taken.
C7_RegisterFresh == []C7_Inv /\ [][C7_Step]_vars

\* A registration has been answered 201.
C7_Witness ==
    \E p \in Procs :
        /\ procs[p].op = "register" /\ procs[p].pc = "done"
        /\ procs[p].resp.status = 201
        /\ procs[p].resp.data.userId \in UserIds

C8_Step ==
    \A p \in Procs :
        (/\ procs[p].pc = "idle"
         /\ procs'[p].op \in {"me", "logout", "changePassword"}
         /\ JwtVerify(procs'[p].hdr, now) = "TokenExpiredError")
            => /\ procs'[p].pc = "done"
               /\ procs'[p].resp.status = 401
               /\ procs'[p].resp.message = TOKEN_EXPIRED
               /\ procs'[p].resp.message # verifyToken(GarbageJwt).err.message

\* C8: authenticate with a well-signed access token whose expiry has passed
\* is answered 401 with the message 'Token has expired', which is not the
\* message a token with an invalid signature gets.
C8_ExpiredDistinct == [][C8_Step]_vars

C9_Inv ==
    \A p \in Procs :
        (procs[p].op = "logout" /\ procs[p].pc = "done" /\ procs[p].reqUser.id # 0)
            => /\ procs[p].resp.status = 200
               /\ procs[p].resp.success

C9_Step ==
    \A p \in Procs :
        LET t == procs[p].body.refreshToken
            found == FindSessionByToken(t)
            sid == procs[p].session.id
        IN /\ (Leaves(p, "logout_find") /\ found.id = 0)
                => /\ procs'[p].pc = "done"
                   /\ users' = users
                   /\ sessions' = sessions
           /\ (Leaves(p, "logout_find") /\ found.id # 0)
                => /\ procs'[p].pc = "logout_update"
                   /\ procs'[p].session.id = found.id
           /\ Leaves(p, "logout_update")
                => /\ procs'[p].pc = "done"
                   /\ users' = users
                   /\ sid \in DOMAIN sessions
                   /\ sessions' = [sessions EXCEPT ![sid].isRevoked = TRUE]
                   /\ sessions[sid].isRevoked => sessions' = sessions
                   /\ sessions[sid].refreshToken = t
                        => RefreshCheck(FindSessionByToken(t),
                                        FindUserById(FindSessionByToken(t).userId))'
                             = UnauthorizedError(INVALID_TOKEN)

\* C9: with one request at a time, an authenticated logout(t) is answered
\* 200 success for every token value t: when no session stores t, no session
\* and no identity changes; when a session stores t, that row and no other
\* becomes revoked and refreshToken(t) is refused afterwards; on a session
\* already revoked the call changes nothing, so a repeated logout(t) gives
\* the same answer and the same final state.
C9_LogoutIdempotent == []C9_Inv /\ [][C9_Step]_vars

\* A logout on a session that was already revoked has been answered 200.
C9_Witness ==
    \E p \in Procs :
        /\ procs[p].op = "logout" /\ procs[p].pc = "done"
        /\ procs[p].resp.status = 200
        /\ procs[p].session.id # 0
        /\ procs[p].session.isRevoked

C10_Step ==
    \A sid \in DOMAIN sessions :
        sessions[sid].isRevoked
            => /\ sid \in DOMAIN sessions' => sessions'[sid] = sessions[sid]
               /\ \A p \in Procs :
                    ~(/\ Leaves(p, "refresh_update")
                      /\ procs[p].session.id = sid
                      /\ procs'[p].resp.status = 200)

\* C10: once a session is revoked, every step of every interleaving either
\* leaves its row as it is or deletes it, and no refreshToken call on that
\* session is answered with success.
C10_RevokedTerminal == [][C10_Step]_vars

\* No step sets the revoked flag of a session back to false.
C10_FlagStep ==
    \A sid \in DOMAIN sessions :
        (sessions[sid].isRevoked /\ sid \in DOMAIN sessions') => sessions'[sid].isRevoked

C10_FlagMonotone == [][C10_FlagStep]_vars

\* The lookup of refreshToken finds nothing it may accept: no session stores
\* the token, or the session is revoked, or its expiry is not after the clock.
NotRefreshable(found, clock) ==
    found.id = 0 \/ found.isRevoked \/ found.expiresAt <= clock

C11_Step ==
    \A p \in Procs :
        LET found == FindSessionByToken(procs'[p].body.refreshToken)
        IN (Starts(p, "refresh") /\ NotRefreshable(found, now))
            => /\ RepliedUnauthorized(p)
               /\ procs'[p].resp.data = NoData
               /\ procs'[p].tokens = NoTokens
               /\ sessions' = sessions

\* C11: refreshToken(t) is answered 401 Unauthorized, returns no tokens and
\* changes no session whenever no session stores t, or the session is
\* revoked, or its expiry is less than or equal to the current time.
C11_RefusedAtExpiry == [][C11_Step]_vars

C11_StrictStep ==
    \A p \in Procs :
        LET found == FindSessionByToken(procs'[p].body.refreshToken)
        IN (Starts(p, "refresh") /\ NotRefreshable(found, now) /\ found.expiresAt # now)
            => /\ RepliedUnauthorized(p)
               /\ procs'[p].resp.data = NoData
               /\ sessions' = sessions

\* Away from the instant of expiry itself the refusal holds.
C11_RefusedPastExpiry == [][C11_StrictStep]_vars

\* A request to a route behind authenticate arrives in slot p.
StartsAuthenticated(p) ==
    /\ procs[p].pc = "idle"
    /\ procs'[p].op \in {"me", "logout", "changePassword"}

\* The step writes nothing to the store and issues no token.
NothingWritten ==
    /\ users' = users
    /\ sessions' = sessions
    /\ nextToken' = nextToken

C12_Step ==
    \A p \in Procs :
        LET user == FindUserByEmail(procs'[p].body.email)
            found == FindSessionByToken(procs'[p].body.refreshToken)
            token == procs'[p].hdr
        IN /\ (Starts(p, "login") /\ user.id # 0 /\ ~user.isActive)
                => /\ RepliedUnauthorized(p)
                   /\ procs'[p].resp.message = USER_INACTIVE
                   /\ procs'[p].resp.message # INVALID_CREDENTIALS
                   /\ procs'[p].resp.data = NoData
                   /\ NothingWritten
           /\ (Starts(p, "refresh") /\ found.id # 0 /\ ~users[found.userId].isActive)
                => /\ RepliedUnauthorized(p)
                   /\ procs'[p].resp.data = NoData
                   /\ NothingWritten
           /\ (StartsAuthenticated(p) /\ token.sig = "valid" /\ token.sub \in UserIds
                 /\ ~users[token.sub].isActive)
                => /\ RepliedUnauthorized(p)
                   /\ procs'[p].reqUser = NoUser
                   /\ JwtVerify(token, now) = "ok" => procs'[p].resp.message = USER_NOT_FOUND
                   /\ NothingWritten

\* C12: with one request at a time, while the active flag of an identity is
\* false a login with its email is answered 401 with the message 'Account is
\* deactivated', which is not the invalid-credentials message; refreshToken
\* on any of its sessions is answered 401; a request carrying any of its
\* access tokens is answered 401 by authenticate, with 'User not found' when
\* the token is unexpired, and no identity is attached; none of these
\* requests writes a row of the users or sessions or issues a token.
C12_InactiveLockedOut == [][C12_Step]_vars

\* A refreshToken call on a live session was refused because the owner had
\* been deactivated.
C12_Witness ==
    \E p \in Procs, sid \in DOMAIN sessions :
        /\ procs[p].op = "refresh" /\ procs[p].pc = "done"
        /\ procs[p].resp.status = 401
        /\ procs[p].resp.message = USER_INACTIVE
        /\ sessions[sid].refreshToken = procs[p].body.refreshToken
        /\ ~sessions[sid].isRevoked
        /\ ~users[sessions[sid].userId].isActive

\* A request carrying an unexpired access token of a deactivated identity
\* was refused by authenticate.
C12_WitnessToken ==
    \E p \in Procs :
        /\ procs[p].op \in {"me", "logout", "changePassword"} /\ procs[p].pc = "done"
        /\ procs[p].resp.message = USER_NOT_FOUND
        /\ procs[p].hdr.sub \in UserIds
        /\ ~users[procs[p].hdr.sub].isActive


(***************************************************************************)
(* C13: authorize(requiredRoles) lets the request continue if and only if  *)
(* the identity attached by the guard before it holds at least one role    *)
(* whose name is in requiredRoles; an identity holding none of them gets   *)
(* 401 with the insufficient-permissions message, a request with no        *)
(* identity attached gets 401 Unauthorized, and in both failing cases the  *)
(* route handler does not run.                                             *)
(***************************************************************************)
StartsGuarded(p) == procs[p].pc = "idle" /\ procs'[p].op = "guarded"

ReachesAuthorize(p) ==
    /\ StartsGuarded(p)
    /\ procs'[p].chain.authorize
    /\ procs'[p].trace.nextErr = NoError

HoldsRequiredRole(id, required) ==
    id \in UserIds /\ users[id].roles \cap required # {}

C13_Step ==
    \A p \in Procs : ReachesAuthorize(p) =>
        LET req == procs'[p]
        IN /\ req.ran <=> HoldsRequiredRole(req.reqUser.id, req.chain.roles)
           /\ req.ran => req.resp.status = 200 /\ req.resp.success
           /\ (~req.ran /\ req.reqUser.id # 0) =>
                  RepliedUnauthorized(p) /\ req.resp.message = INSUFFICIENT_PERMISSIONS
           /\ req.reqUser.id = 0 =>
                  RepliedUnauthorized(p) /\ req.resp.message = UNAUTHORIZED

C13_AuthorizeAnyRole == [][C13_Step]_vars

\* A request let through on one of two required roles, none of the
\* requests before it having been refused for its roles.
C13_Witness ==
    \E p \in Procs :
        /\ procs[p].op = "guarded" /\ procs[p].pc = "done"
        /\ procs[p].chain.authorize /\ procs[p].chain.roles = {"admin", "user"}
        /\ procs[p].reqUser.roles = {"admin"}
        /\ procs[p].ran

\* An identity without a required role is refused.
C13_WitnessDenied ==
    \E p \in Procs :
        /\ procs[p].op = "guarded" /\ procs[p].pc = "done"
        /\ procs[p].chain.authorize
        /\ procs[p].reqUser.id # 0
        /\ ~procs[p].ran
        /\ procs[p].resp.message = INSUFFICIENT_PERMISSIONS

\* A request that reaches authorize with no identity attached is refused.
C13_WitnessAnonymous ==
    \E p \in Procs :
        /\ procs[p].op = "guarded" /\ procs[p].pc = "done"
        /\ procs[p].chain.authorize
        /\ procs[p].trace.nextErr = NoError
        /\ procs[p].reqUser.id = 0
        /\ ~procs[p].ran
        /\ procs[p].resp.message = UNAUTHORIZED


(***************************************************************************)
(* C14: round trip.  In the state in which login, register or refreshToken *)
(* has just issued a token pair, verifyToken on the issued access token    *)
(* succeeds and returns an identity with the id and the set of role names  *)
(* that the token carries.                                                 *)
(***************************************************************************)
Issues(p) == procs[p].tokens = NoTokens /\ procs'[p].tokens # NoTokens

SameIdentity(token, verified) ==
    /\ verified.err = NoError
    /\ verified.user.id = token.sub
    /\ verified.user.roles = token.roles

C14_Step ==
    \A p \in Procs : Issues(p) =>
        /\ procs'[p].op \in {"login", "register", "refresh"}
        /\ SameIdentity(procs'[p].tokens.accessToken,
                        verifyToken(procs[p].tokens.accessToken)')

C14_RoundTrip == [][C14_Step]_vars

\* Tokens issued to the identity that holds a role: the token carries the
\* role and verifyToken returns it.
C14_Witness ==
    \E p \in Procs :
        /\ procs[p].op \in {"login", "refresh"}
        /\ procs[p].tokens # NoTokens
        /\ procs[p].tokens.accessToken.roles = {"admin"}
        /\ SameIdentity(procs[p].tokens.accessToken, verifyToken(procs[p].tokens.accessToken))


(***************************************************************************)
(* C15: the validity of an access token does not depend on session state.  *)
(* A well-signed, unexpired access token of an identity that exists and is *)
(* active verifies successfully in every reachable state, whatever has     *)
(* happened to the identity's sessions; a step that changes session rows   *)
(* (logout, changePassword, refresh rotation, sweep) does not change the   *)
(* outcome of verifyToken on any token a client holds; and a request that  *)
(* only verifies a token writes nothing.                                   *)
(***************************************************************************)
Verifiable(token) ==
    /\ JwtVerify(token, now) = "ok"
    /\ token.sub \in UserIds
    /\ users[token.sub].isActive

C15_Inv ==
    \A token \in knownAT :
        Verifiable(token) =>
            /\ verifyToken(token).err = NoError
            /\ verifyToken(token).user.id = token.sub

C15_Step ==
    /\ sessions' # sessions =>
           \A token \in knownAT : verifyToken(token)'.err = verifyToken(token).err
    /\ \A p \in Procs : Starts(p, "me") =>
           /\ users' = users /\ sessions' = sessions /\ auditLog' = auditLog
           /\ nextSid' = nextSid /\ nextToken' = nextToken

C15_SessionIndependent == []C15_Inv /\ [][C15_Step]_vars

\* A token is verified for an identity all of whose sessions are revoked.
C15_Witness ==
    \E p \in Procs :
        /\ procs[p].op = "me" /\ procs[p].pc = "done"
        /\ procs[p].resp.status = 200
        /\ SessionsOf(procs[p].reqUser.id) # {}
        /\ \A sid \in SessionsOf(procs[p].reqUser.id) : sessions[sid].isRevoked

\* A token is verified for an identity whose sessions the sweep has deleted.
C15_WitnessSwept ==
    \E p \in Procs :
        /\ procs[p].op = "me" /\ procs[p].pc = "done"
        /\ procs[p].resp.status = 200
        /\ SessionsOf(procs[p].reqUser.id) = {}


(***************************************************************************)
(* C16: authenticate calls its continuation exactly once and writes no     *)
(* response itself.  When the Authorization header is missing, does not    *)
(* start with 'Bearer ', carries nothing after the prefix, or carries a    *)
(* token that verifyToken refuses, the continuation receives an            *)
(* Unauthorized error and no identity is attached to the request; when     *)
(* verifyToken succeeds the identity it returns is attached and the        *)
(* continuation is called without an error.                                *)
(***************************************************************************)
BehindAuthenticate(p) ==
    procs[p].pc = "idle" /\ procs'[p].chain.guard = "authenticate"

NoUsableToken(req) ==
    \/ req.scheme = "absent"
    \/ req.scheme # "Bearer "
    \/ req.hdr = EmptyToken
    \/ verifyToken(req.hdr).err # NoError

C16_Step ==
    \A p \in Procs : BehindAuthenticate(p) =>
        LET req == procs'[p]
        IN /\ req.trace.nextCalls = 1
           /\ ~req.trace.responded
           /\ NoUsableToken(req) =>
                  /\ req.trace.nextErr.cls = "UnauthorizedError"
                  /\ req.trace.nextErr.statusCode = 401
                  /\ req.reqUser = NoUser
                  /\ req.resp = errorHandler(req.trace.nextErr)
                  /\ ~req.ran
           /\ ~NoUsableToken(req) =>
                  /\ req.trace.nextErr = NoError
                  /\ req.reqUser = FindUserById(req.hdr.sub)
                  /\ req.reqUser.id # 0

C16_AuthenticateContinues == [][C16_Step]_vars

\* Each way of failing is reached: no header, another scheme, nothing after
\* the prefix, a token that verifyToken refuses.
C16_Witness ==
    \E p \in Procs :
        /\ procs[p].chain.guard = "authenticate" /\ procs[p].pc = "done"
        /\ procs[p].scheme = "Bearer " /\ procs[p].hdr \in knownAT
        /\ procs[p].trace.nextCalls = 1
        /\ procs[p].trace.nextErr.cls = "UnauthorizedError"
        /\ procs[p].reqUser = NoUser

C16_WitnessEmpty ==
    \E p \in Procs :
        /\ procs[p].chain.guard = "authenticate" /\ procs[p].pc = "done"
        /\ procs[p].scheme = "Bearer " /\ procs[p].hdr = EmptyToken
        /\ procs[p].trace.nextErr = UnauthorizedError(UNAUTHORIZED)

C16_WitnessNoHeader ==
    \E p \in Procs :
        /\ procs[p].chain.guard = "authenticate" /\ procs[p].pc = "done"
        /\ procs[p].scheme = "absent"
        /\ procs[p].resp.status = 401

C16_WitnessOtherScheme ==
    \E p \in Procs :
        /\ procs[p].chain.guard = "authenticate" /\ procs[p].pc = "done"
        /\ procs[p].scheme = "Basic "
        /\ procs[p].resp.status = 401

C16_WitnessAttached ==
    \E p \in Procs :
        /\ procs[p].chain.guard = "authenticate"
        /\ procs[p].trace.nextCalls = 1 /\ procs[p].trace.nextErr = NoError
        /\ procs[p].reqUser.id # 0


(***************************************************************************)
(* C17: optionalAuth always lets the request continue without an error,    *)
(* whatever the Authorization header and whatever verifyToken answers; an  *)
(* identity is attached to the request if and only if the header carried   *)
(* a Bearer token and verifyToken succeeded on it.                         *)
(***************************************************************************)
BehindOptionalAuth(p) ==
    procs[p].pc = "idle" /\ procs'[p].chain.guard = "optionalAuth"

VerifiedBearer(req) ==
    /\ req.scheme = "Bearer "
    /\ req.hdr # EmptyToken
    /\ verifyToken(req.hdr).err = NoError

C17_Step ==
    \A p \in Procs : BehindOptionalAuth(p) =>
        LET req == procs'[p]
        IN /\ req.trace = [nextCalls |-> 1, nextErr |-> NoError, responded |-> FALSE]
           /\ req.reqUser # NoUser <=> VerifiedBearer(req)
           /\ VerifiedBearer(req) => req.reqUser = FindUserById(req.hdr.sub)
           /\ ~req.chain.authorize => req.ran /\ req.resp.status = 200

C17_OptionalAuthContinues == [][C17_Step]_vars

\* A token that verifyToken refuses: the request goes on unauthenticated
\* and its handler answers.
C17_Witness ==
    \E p \in Procs :
        /\ procs[p].chain.guard = "optionalAuth" /\ procs[p].pc = "done"
        /\ procs[p].scheme = "Bearer " /\ procs[p].hdr # EmptyToken
        /\ verifyToken(procs[p].hdr).err # NoError
        /\ procs[p].reqUser = NoUser
        /\ procs[p].ran

\* A token that verifyToken accepts: the identity is attached.
C17_WitnessAttached ==
    \E p \in Procs :
        /\ procs[p].chain.guard = "optionalAuth" /\ procs[p].pc = "done"
        /\ procs[p].reqUser.id # 0
        /\ procs[p].ran


(***************************************************************************)
(* C18: for every domain error kind that reaches the centralized           *)
(* responder, the response carries the HTTP status, the error code and the *)
(* message of the error that was raised, unmodified.                       *)
(***************************************************************************)
SentUnmodified(req) ==
    /\ req.resp.status = req.raised.statusCode
    /\ req.resp.code = req.raised.code
    /\ req.resp.message = req.raised.message
    /\ ~req.resp.success

C18_DomainErrorsUnmodified ==
    \A p \in Procs :
        procs[p].raised.cls \in ApiErrorClasses => SentUnmodified(procs[p])

\* The same for the kinds other than ValidationError.
C18_OtherKindsUnmodified ==
    \A p \in Procs :
        procs[p].raised.cls \in ApiErrorClasses \ {"ValidationError"} =>
            SentUnmodified(procs[p])

\* A ValidationError is sent with status 400 and the responder's own message.
C18_ValidationRewritten ==
    \A p \in Procs :
        procs[p].raised.cls = "ValidationError" =>
            /\ procs[p].raised.statusCode = 422
            /\ procs[p].resp.status = 400
            /\ procs[p].resp.code = "VALIDATION_ERROR"
            /\ procs[p].resp.message = "Validation failed"


(***************************************************************************)
(* C19: two refreshToken calls that present the same token and overlap can *)
(* both pass the session lookup and both succeed, each returning a         *)
(* different new pair.  The row keeps only the token written last: when a  *)
(* call completes its update while another successful call on the same     *)
(* session has not yet been answered, their new tokens differ, the row     *)
(* holds the token of the call that wrote last, and the other call's token *)
(* is stored in no session.                                                *)
(***************************************************************************)
RefreshSucceeded(req, sid) ==
    /\ req.op = "refresh" /\ req.pc = "done"
    /\ req.resp.status = 200
    /\ req.session.id = sid

StoredTokens == {sessions[sid].refreshToken : sid \in DOMAIN sessions}

C19_Step ==
    \A p \in Procs :
        (procs[p].pc = "refresh_update" /\ RefreshSucceeded(procs'[p], procs[p].session.id)) =>
            LET sid == procs[p].session.id
                written == procs'[p].resp.data.refreshToken
            IN /\ sessions'[sid].refreshToken = written
               /\ \A q \in Procs \ {p} : RefreshSucceeded(procs[q], sid) =>
                      /\ procs[q].resp.data.refreshToken # written
                      /\ procs[q].resp.data.refreshToken \notin StoredTokens'

C19_LastWriteWins == [][C19_Step]_vars

\* Both calls have succeeded on the same presented token, and the token
\* returned by one of them is stored in no session.
C19_Witness ==
    \E p \in Procs, q \in Procs :
        /\ p # q
        /\ RefreshSucceeded(procs[p], procs[q].session.id)
        /\ RefreshSucceeded(procs[q], procs[p].session.id)
        /\ procs[p].body.refreshToken = procs[q].body.refreshToken
        /\ procs[p].resp.data.refreshToken # procs[q].resp.data.refreshToken
        /\ procs[p].resp.data.refreshToken \in StoredTokens
        /\ procs[q].resp.data.refreshToken \notin StoredTokens

\* The client holds the token that is stored nowhere, and refreshToken
\* has refused it.
C19_WitnessRefused ==
    \E p \in Procs :
        /\ procs[p].op = "refresh" /\ procs[p].pc = "done"
        /\ procs[p].resp.status = 401
        /\ procs[p].body.refreshToken \in knownRT
        /\ procs[p].body.refreshToken \notin StoredTokens
        /\ procs[p].body.refreshToken \notin acceptedRT


(***************************************************************************)
(* C20: in every reachable state each session row holds one refresh-token  *)
(* value and no two rows hold the same value, so for each row (one per     *)
(* login or register) at most one token is accepted by refreshToken; and   *)
(* refreshToken rotates in place: it creates and deletes no session row    *)
(* and leaves the id and the identity reference of every row unchanged.    *)
(***************************************************************************)
IssuedTokens == 1 .. (nextToken - 1)

AcceptedFor(sid) ==
    {token \in IssuedTokens :
        LET session == FindSessionByToken(token)
        IN session.id = sid /\ RefreshCheck(session, FindUserById(session.userId)) = NoError}

C20_Inv ==
    /\ \A s1 \in DOMAIN sessions, s2 \in DOMAIN sessions :
           sessions[s1].refreshToken = sessions[s2].refreshToken => s1 = s2
    /\ \A sid \in DOMAIN sessions :
           /\ sessions[sid].refreshToken \in IssuedTokens
           /\ Cardinality(AcceptedFor(sid)) <= 1

C20_Step ==
    \A p \in Procs :
        (procs'[p].op = "refresh" /\ procs'[p] # procs[p] /\ procs'[p].pc # "idle") =>
            /\ DOMAIN sessions' = DOMAIN sessions
            /\ \A sid \in DOMAIN sessions :
                   /\ sessions'[sid].userId = sessions[sid].userId
                   /\ sessions'[sid].createdAt = sessions[sid].createdAt
                   /\ sid # procs'[p].session.id => sessions'[sid] = sessions[sid]

C20_RotateInPlace == []C20_Inv /\ [][C20_Step]_vars

\* A refresh has rotated the token of one of two rows.
C20_Witness ==
    \E p \in Procs :
        /\ procs[p].op = "refresh" /\ procs[p].pc = "done"
        /\ procs[p].resp.status = 200
        /\ Cardinality(DOMAIN sessions) >= 2
        /\ procs[p].session.id \in DOMAIN sessions
        /\ sessions[procs[p].session.id].refreshToken = procs[p].resp.data.refreshToken
        /\ sessions[procs[p].session.id].refreshToken # procs[p].body.refreshToken
        /\ AcceptedFor(procs[p].session.id) = {procs[p].resp.data.refreshToken}


(***************************************************************************)
(* C21: a successful refreshToken changes only the stored token value and  *)
(* the updated timestamp of its session: expiry, revoked flag and owning   *)
(* identity stay as they were.  So every session keeps the expiry fixed    *)
(* when it was created, however often it is refreshed, and refreshToken on *)
(* it is refused once that time has passed.                                *)
(***************************************************************************)
Lifetimes == {SESSION_EXPIRY_DEFAULT, SESSION_EXPIRY_REMEMBER_ME}

C21_Inv ==
    \A sid \in DOMAIN sessions :
        sessions[sid].expiresAt - sessions[sid].createdAt \in Lifetimes

C21_Step ==
    \A p \in Procs :
        /\ (procs[p].pc = "refresh_update" /\ procs'[p].resp.status = 200) =>
               LET sid == procs[p].session.id
               IN sessions' = [sessions EXCEPT
                                 ![sid].refreshToken = procs'[p].resp.data.refreshToken,
                                 ![sid].updatedAt = now]
        /\ Starts(p, "refresh") =>
               LET session == FindSessionByToken(procs'[p].body.refreshToken)
               IN (session.id # 0 /\ session.expiresAt < now) =>
                      /\ RepliedUnauthorized(p)
                      /\ sessions' = sessions

C21_ExpiryFixed == []C21_Inv /\ [][C21_Step]_vars

\* A session that was refreshed after its creation is refused once its
\* expiry has passed.
C21_Witness ==
    \E p \in Procs :
        /\ procs[p].op = "refresh" /\ procs[p].pc = "done"
        /\ procs[p].resp.status = 401
        /\ \E sid \in DOMAIN sessions :
            /\ sessions[sid].refreshToken = procs[p].body.refreshToken
            /\ ~sessions[sid].isRevoked
            /\ sessions[sid].updatedAt > sessions[sid].createdAt
            /\ sessions[sid].expiresAt < now


(***************************************************************************)
(* C22: every session is created non-revoked, with an expiry equal to the  *)
(* time of its creation plus 7 days, or plus 30 days exactly when it is    *)
(* created by a login with rememberMe true; a session created by register  *)
(* always gets 7 days.                                                     *)
(***************************************************************************)
Days(n) == n * 24 * 60 * 60

Created == DOMAIN sessions' \ DOMAIN sessions

\* The request that creates a session in this step asked to be remembered.
CreatedRemembered ==
    \E p \in Procs :
        /\ procs[p].pc = "login_session" /\ procs'[p].pc = "done"
        /\ procs[p].op = "login" /\ procs[p].body.rememberMe

C22_Step ==
    \A sid \in Created :
        /\ ~sessions'[sid].isRevoked
        /\ sessions'[sid].createdAt = now
        /\ sessions'[sid].expiresAt =
               now + (IF CreatedRemembered THEN Days(30) ELSE Days(7))
        /\ \E p \in Procs :
               /\ procs[p].op \in {"login", "register"}
               /\ procs[p].pc # "done" /\ procs'[p].pc = "done"
               /\ procs[p].op = "register" => sessions'[sid].expiresAt = now + Days(7)

C22_SessionLifetime == [][C22_Step]_vars

\* A remembered login after the clock has moved: its session expires 30
\* days after its creation.
C22_Witness ==
    \E p \in Procs, sid \in DOMAIN sessions :
        /\ procs[p].op = "login" /\ procs[p].pc = "done" /\ procs[p].body.rememberMe
        /\ sessions[sid].refreshToken = procs[p].resp.data.refreshToken
        /\ sessions[sid].createdAt > 0
        /\ sessions[sid].expiresAt = sessions[sid].createdAt + Days(30)
        /\ ~sessions[sid].isRevoked

\* Sessions of a register and of a login that did not ask to be remembered.
C22_WitnessDefault ==
    \E s1 \in DOMAIN sessions, s2 \in DOMAIN sessions :
        /\ sessions[s1].origin = "register" /\ sessions[s2].origin = "login"
        /\ sessions[s1].expiresAt = sessions[s1].createdAt + Days(7)
        /\ sessions[s2].expiresAt = sessions[s2].createdAt + Days(7)


(***************************************************************************)
(* C23: the sweep deletes exactly the session rows that are expired or     *)
(* revoked when it runs, and returns the number of rows deleted:           *)
(* afterwards no expired or revoked row remains, every row that was        *)
(* neither is still present and unchanged, and so are all identities.      *)
(***************************************************************************)
Deleted == DOMAIN sessions \ DOMAIN sessions'

\* A step that deletes session rows; only the sweep does.
Sweeps == Deleted # {}

ExpiredOrRevoked(row, clock) == row.expiresAt < clock \/ row.isRevoked

SweepDeletesExactly ==
    /\ Deleted = {sid \in DOMAIN sessions : ExpiredOrRevoked(sessions[sid], now)}
    /\ \A sid \in DOMAIN sessions' :
           /\ sid \in DOMAIN sessions
           /\ sessions'[sid] = sessions[sid]
           /\ ~ExpiredOrRevoked(sessions'[sid], now')
    /\ users' = users
    /\ procs' = procs /\ auditLog' = auditLog

C23_Step ==
    Sweeps =>
        /\ SweepDeletesExactly
        /\ cleanExpiredSessionsResult(Cardinality(Deleted)) =
               Returned(TRUE, Cardinality(Deleted))

C23_SweepReturnsCount == [][C23_Step]_vars

\* The same, with what the call resolves to in the code: nothing.
C23_VoidStep ==
    Sweeps =>
        /\ SweepDeletesExactly
        /\ ~cleanExpiredSessionsResult(Cardinality(Deleted)).defined

C23_SweepDeletesExactly == [][C23_VoidStep]_vars

\* A sweep has removed an expired and a revoked row and kept a live one.
C23_Witness ==
    /\ nextSid >= 3
    /\ Cardinality(DOMAIN sessions) = 1
    /\ \A sid \in DOMAIN sessions : ~ExpiredOrRevoked(sessions[sid], now)


(***************************************************************************)
(* C24: a failure to write the audit entry never changes the outcome of    *)
(* register, login, logout or changePassword.  Whether or not the insert   *)
(* into the audit log succeeds, the operation that has done its store      *)
(* writes answers with its success response and leaves the identity and    *)
(* session rows it wrote; the audit error is not surfaced to the caller.   *)
(***************************************************************************)
Completes(p, pc) == procs[p].pc = pc /\ procs'[p].pc = "done"

Succeeded(req, status) ==
    /\ req.resp.status = status
    /\ req.resp.success
    /\ req.resp.code = "none"
    /\ req.raised = NoError

AuditWritten(userId, action) ==
    auditLog' = IF auditUp
                THEN auditLog (+) SetToBag({[userId |-> userId, action |-> action]})
                ELSE auditLog

C24_Step ==
    \A p \in Procs :
        /\ Completes(p, "reg_session") =>
               /\ Succeeded(procs'[p], 201)
               /\ procs'[p].resp.data.refreshToken \in {sessions'[sid].refreshToken : sid \in Created}
               /\ AuditWritten(procs[p].user.id, "register")
        /\ Completes(p, "login_session") =>
               /\ Succeeded(procs'[p], 200)
               /\ procs'[p].resp.data.refreshToken \in {sessions'[sid].refreshToken : sid \in Created}
               /\ AuditWritten(procs[p].user.id, "login")
        /\ (Completes(p, "logout_update") /\ procs[p].session.id \in DOMAIN sessions) =>
               /\ Succeeded(procs'[p], 200)
               /\ sessions'[procs[p].session.id].isRevoked
               /\ AuditWritten(procs[p].session.userId, "logout")
        /\ (Completes(p, "cp_tx") /\ users' # users) =>
               /\ Succeeded(procs'[p], 200)
               /\ users'[procs[p].user.id].password = Hash(procs[p].body.newPassword)
               /\ \A sid \in SessionsOf(procs[p].user.id) : sessions'[sid].isRevoked
               /\ AuditWritten(procs[p].user.id, "password_change")

C24_AuditBestEffort == [][C24_Step]_vars

\* The audit log is down: a login, a logout and a password change have
\* succeeded all the same, and nothing is in the log.
C24_Witness ==
    /\ ~auditUp
    /\ auditLog = EmptyBag
    /\ \E p \in Procs :
        /\ procs[p].op = "changePassword" /\ procs[p].pc = "done"
        /\ procs[p].resp.status = 200
        /\ \E sid \in SessionsOf(procs[p].user.id) : sessions[sid].isRevoked

\* The audit log is up: the entries are written.
C24_WitnessLogged ==
    /\ auditUp
    /\ BagCardinality(auditLog) >= 2

C24_WitnessLogout ==
    /\ ~auditUp
    /\ \E p \in Procs :
        /\ procs[p].op = "logout" /\ procs[p].pc = "done"
        /\ procs[p].resp.status = 200
        /\ procs[p].session.id \in DOMAIN sessions
        /\ sessions[procs[p].session.id].isRevoked


(***************************************************************************)
(* C25: when two register calls with the same fresh email overlap, at most *)
(* one identity with that email is created, one call succeeds, and the     *)
(* other is answered as a sequential duplicate registration is: with the   *)
(* domain error of the existence check, not with an unrecognized store     *)
(* error reported as INTERNAL_SERVER_ERROR.                                *)
(***************************************************************************)
C25_Inv ==
    \A i \in UserIds, j \in UserIds : users[i].email = users[j].email => i = j

\* The answer a register call with this body gets when it arrives now.
SequentialDuplicate(body) ==
    errorHandler(RegisterExistsError(
        FindUserByEmailOrUsername(body.email, body.username), body))

C25_Step ==
    \A p \in Procs :
        (procs[p].pc = "reg_create" /\ procs'[p].pc = "done") =>
            /\ procs'[p].resp = SequentialDuplicate(procs[p].body)
            /\ procs'[p].resp.code # "INTERNAL_SERVER_ERROR"

C25_RaceIsDuplicate == []C25_Inv /\ [][C25_Step]_vars

\* What the code does: the insert of the call that comes second violates
\* the unique index, and the store's error is answered 500.
C25_LoserStep ==
    \A p \in Procs :
        (procs[p].pc = "reg_create" /\ procs'[p].pc = "done") =>
            /\ users' = users
            /\ procs'[p].resp.status = 500
            /\ procs'[p].resp.code = "INTERNAL_SERVER_ERROR"
            /\ SequentialDuplicate(procs[p].body).status = 401

C25_RaceIsInternalError == []C25_Inv /\ [][C25_LoserStep]_vars

C25_Witness ==
    \E p \in Procs, q \in Procs :
        /\ procs[p].op = "register" /\ procs[q].op = "register"
        /\ procs[p].body.email = procs[q].body.email
        /\ procs[p].resp.status = 201
        /\ procs[q].resp.status = 500


(***************************************************************************)
(* C26: under any interleaving of login and changePassword for the same    *)
(* identity, a session that a login creates is created on a password check *)
(* made against the hash the identity has at that moment: a login that     *)
(* verified the old password before the change committed does not create,  *)
(* after the commit, a session that stays non-revoked.                     *)
(***************************************************************************)
\* The hash the request in slot p compared the password with is the hash
\* the identity has now.
CheckedCurrentHash(p) ==
    procs[p].user.password = users[procs[p].user.id].password

C26_Step ==
    \A p \in Procs :
        Completes(p, "login_session") =>
            \/ CheckedCurrentHash(p)
            \/ \A sid \in Created : sessions'[sid].isRevoked

C26_NoSessionOnOldPassword == [][C26_Step]_vars

\* The session a login created on the old password, live after the change.
C26_Witness ==
    \E p \in Procs, sid \in DOMAIN sessions :
        /\ procs[p].op = "login" /\ procs[p].pc = "done" /\ procs[p].resp.status = 200
        /\ sessions[sid].refreshToken = procs[p].resp.data.refreshToken
        /\ ~sessions[sid].isRevoked
        /\ PwEpoch(sessions[sid].userId) > 0
        /\ procs[p].user.password # users[sessions[sid].userId].password


(***************************************************************************)
(* C27: at the moment a refreshToken call returns successfully, under any  *)
(* interleaving with logout, changePassword or another refreshToken on the *)
(* same session, the refresh token it returns is the token stored in its   *)
(* session and that session is non-revoked, so that the returned token is  *)
(* accepted by the next refresh.                                           *)
(***************************************************************************)
C27_Step ==
    \A p \in Procs :
        (procs[p].pc = "refresh_update" /\ procs'[p].resp.status = 200) =>
            LET sid == procs[p].session.id
                returned == procs'[p].resp.data.refreshToken
            IN /\ sid \in DOMAIN sessions'
               /\ sessions'[sid].refreshToken = returned
               /\ ~sessions'[sid].isRevoked

C27_ReturnedTokenUsable == [][C27_Step]_vars

\* What does hold when the call returns: the returned token is the one
\* stored in the row the call read.
C27_StoredStep ==
    \A p \in Procs :
        (procs[p].pc = "refresh_update" /\ procs'[p].resp.status = 200) =>
            /\ procs[p].session.id \in DOMAIN sessions'
            /\ sessions'[procs[p].session.id].refreshToken = procs'[p].resp.data.refreshToken

C27_ReturnedTokenStored == [][C27_StoredStep]_vars

\* A refresh answered 200 whose session is revoked.
C27_Witness ==
    \E p \in Procs :
        /\ procs[p].op = "refresh" /\ procs[p].pc = "done" /\ procs[p].resp.status = 200
        /\ procs[p].session.id \in DOMAIN sessions
        /\ sessions[procs[p].session.id].refreshToken = procs[p].resp.data.refreshToken
        /\ sessions[procs[p].session.id].isRevoked


(***************************************************************************)
(* C28: the logout endpoint revokes a session only if the session belongs  *)
(* to the identity authenticated by the request's bearer token: a caller   *)
(* who presents the refresh token of another identity's session leaves     *)
(* that session non-revoked.                                               *)
(***************************************************************************)
C28_Step ==
    \A p \in Procs :
        Completes(p, "logout_update") =>
            \A sid \in DOMAIN sessions :
                (sid \in DOMAIN sessions' /\ ~sessions[sid].isRevoked /\ sessions'[sid].isRevoked)
                    => sessions[sid].userId = procs[p].reqUser.id

C28_LogoutOwnSessionOnly == [][C28_Step]_vars

\* What the code ensures: logout revokes the one session that stores the
\* presented token, whoever owns it, and touches no other row.
C28_TokenStep ==
    \A p \in Procs :
        Completes(p, "logout_update") =>
            \A sid \in DOMAIN sessions :
                sid # procs[p].session.id => sessions'[sid] = sessions[sid]

C28_LogoutPresentedSessionOnly == [][C28_TokenStep]_vars

\* A session revoked by a logout request of another identity.
C28_Witness ==
    \E p \in Procs :
        /\ procs[p].op = "logout" /\ procs[p].pc = "done" /\ procs[p].resp.status = 200
        /\ procs[p].session.id \in DOMAIN sessions
        /\ sessions[procs[p].session.id].isRevoked
        /\ procs[p].reqUser.id # 0
        /\ sessions[procs[p].session.id].userId # procs[p].reqUser.id


(***************************************************************************)
(* C29: an operation that fails with a domain error leaves the store       *)
(* unchanged.  login on an unknown email, an inactive identity or a wrong  *)
(* password, refreshToken on an unknown, revoked or expired session or on  *)
(* a session of an inactive identity, and changePassword for a missing     *)
(* identity or with a wrong current password are answered with a domain    *)
(* error and write no identity field, create, rotate or revoke no session, *)
(* and write no audit entry.                                               *)
(***************************************************************************)
StoreUnchanged ==
    /\ users' = users
    /\ sessions' = sessions
    /\ auditLog' = auditLog
    /\ nextSid' = nextSid

FailedWithDomainError(req) ==
    /\ req.pc = "done"
    /\ req.raised.cls \in ApiErrorClasses
    /\ req.resp = Reply(req.raised.statusCode,
                        createErrorResponse(req.raised.message, req.raised.code))
    /\ req.tokens = NoTokens

LoginMustFail(body) ==
    \/ \A id \in UserIds : users[id].email # body.email
    \/ \E id \in UserIds :
           /\ users[id].email = body.email
           /\ ~users[id].isActive \/ users[id].password # Hash(body.password)

RefreshMustFail(token) ==
    \/ \A sid \in DOMAIN sessions : sessions[sid].refreshToken # token
    \/ \E sid \in DOMAIN sessions :
           /\ sessions[sid].refreshToken = token
           /\ \/ sessions[sid].isRevoked
              \/ sessions[sid].expiresAt < now
              \/ ~users[sessions[sid].userId].isActive

ChangePasswordMustFail(req) ==
    \/ req.reqUser.id \notin UserIds
    \/ users[req.reqUser.id].password # Hash(req.body.currentPassword)

C29_Step ==
    \A p \in Procs :
        /\ (Starts(p, "login") /\ LoginMustFail(procs'[p].body)) =>
               FailedWithDomainError(procs'[p]) /\ StoreUnchanged
        /\ (Starts(p, "refresh") /\ RefreshMustFail(procs'[p].body.refreshToken)) =>
               FailedWithDomainError(procs'[p]) /\ StoreUnchanged
        /\ Starts(p, "changePassword") => StoreUnchanged
        /\ (procs[p].pc = "cp_find" /\ procs'[p] # procs[p] /\ ChangePasswordMustFail(procs[p])) =>
               FailedWithDomainError(procs'[p]) /\ StoreUnchanged
        /\ (procs'[p].op \in {"login", "refresh", "changePassword"}
              /\ procs'[p] # procs[p] /\ FailedWithDomainError(procs'[p])) => StoreUnchanged

C29_FailureWritesNothing == [][C29_Step]_vars

\* A changePassword refused for its current password, arrived at after a
\* refused login and with every row as it was created.
C29_Witness ==
    \E p \in Procs :
        /\ procs[p].op = "changePassword" /\ procs[p].pc = "done"
        /\ procs[p].resp.status = 401
        /\ procs[p].resp.message = "Current password is incorrect"
        /\ \A id \in UserIds : PwEpoch(id) = 0
        /\ \A sid \in DOMAIN sessions : ~sessions[sid].isRevoked

\* refreshToken refused for a live session of a deactivated identity.
C29_WitnessInactive ==
    \E p \in Procs, sid \in DOMAIN sessions :
        /\ procs[p].op = "refresh" /\ procs[p].pc = "done"
        /\ procs[p].resp.message = USER_INACTIVE
        /\ sessions[sid].refreshToken = procs[p].body.refreshToken
        /\ ~sessions[sid].isRevoked

\* login refused for a wrong password.
C29_WitnessLogin ==
    \E p \in Procs, id \in UserIds :
        /\ procs[p].op = "login" /\ procs[p].pc = "done"
        /\ procs[p].resp.message = INVALID_CREDENTIALS
        /\ users[id].email = procs[p].body.email
        /\ users[id].lastLogin = -1


(***************************************************************************)
(* C30: in every response of the auth, user and role routes and of the     *)
(* error responder, the envelope's success flag agrees with the HTTP       *)
(* status: success is true exactly when the status is 2xx, and every       *)
(* response with status 400 or above has success false and an error        *)
(* object with a code.                                                     *)
(***************************************************************************)
EnvelopeAgrees(resp) ==
    /\ resp.success <=> (resp.status >= 200 /\ resp.status < 300)
    /\ resp.status >= 400 => ~resp.success /\ resp.code # "none"

C30_Inv ==
    \A p \in Procs : procs[p].pc = "done" => EnvelopeAgrees(procs[p].resp)

\* The same for every route but GET and PUT /users/:id.
C30_OtherRoutes ==
    \A p \in Procs :
        (procs[p].pc = "done" /\ procs[p].op \notin {"getUser", "updateUser"}) =>
            EnvelopeAgrees(procs[p].resp)

\* A response with status 403 and success true.
C30_Witness ==
    \E p \in Procs :
        /\ procs[p].pc = "done"
        /\ procs[p].resp.status = 403
        /\ procs[p].resp.success
        /\ procs[p].resp.code = "none"

=============================================================================
